---- MODULE Spec2Model ----
(* A model of ultralog: the ResilientLogger wrapper of                     *)
(* src/lib/transports/TransportFactory.ts and the Logger handles of        *)
(* src/lib/Logger.ts.                                                       *)
EXTENDS Integers, Sequences, FiniteSets, TLC

(***************************************************************************)
(* Bounds of the model.                                                    *)
(***************************************************************************)
Epoch == 100000          \* Date.now() when the ResilientLogger is built
MaxElapsed == 60001      \* the clock runs from Epoch to Epoch + MaxElapsed
MaxErrorCount == 12      \* cap on errorCount (the setters raise it without limit)

MaxHandles == 3          \* Logger handles: the root and the derived ones
MaxRecords == 2          \* Logger.log calls in one behaviour
BufferSize == 2          \* config.bufferSize when one is configured
MaxLogs == 4             \* Logger.log calls on a root watched while it flushes
MaxCloses == 2           \* Logger.close calls on that root

Delays == {30000, 30001} \* the clock advances between calls, in milliseconds
Messages == {"m1", "m2"}
Keys == {"a", "b"}       \* keys of a LoggerContext
Vals == {1, 2}           \* values of a LoggerContext
\* the contexts passed to withContext and child
Extras == {[k \in {"a"} |-> 1], [k \in {"a"} |-> 2], [k \in Keys |-> 1]}
LoggedLevels == {"info"}  \* the levels logged on Logger handles

(***************************************************************************)
(* Program constants.                                                      *)
(***************************************************************************)
maxErrors == 10
errorResetInterval == 60000

\* LogLevelString, as accepted by log() and the leveled wrappers
Levels == {"fatal", "error", "warn", "info", "debug", "trace"}

\* winston.config.npm.levels: the levels of a winston logger created without
\* a levels option, as the fallback logger is
NpmLevels ==
  [error |-> 0, warn |-> 1, info |-> 2, http |-> 3, verbose |-> 4,
   debug |-> 5, silly |-> 6]

None == "undefined"

\* the meta argument of a log call that passes none
NoMeta == 0

VARIABLES
  primaryLogger,   \* ResilientLogger.primaryLogger: what the field holds
  sinkFails,       \* whether the sinks of the primary pipeline fail
  errorCount,      \* ResilientLogger.errorCount
  lastErrorTime,   \* ResilientLogger.lastErrorTime
  now,             \* Date.now()
  call,            \* what the last call on the ResilientLogger did
  streak,          \* log calls in a row whose primary attempt failed
  derived          \* what withContext/withTracing/child returned, in order

rvars ==
  <<primaryLogger, sinkFails, errorCount, lastErrorTime, now, call, streak,
    derived>>

VARIABLES
  cfg,             \* the LoggerConfig the root Logger was created with
  handles,         \* the Logger objects: the root, then the derived ones
  out,             \* the calls made on the winston logger, in order
  flushTimer,      \* whether the root's setInterval timer is running
  loggerClosed,    \* whether close() was called on the winston logger
  logged           \* the number of Logger.log calls so far

VARIABLES
  collectors,      \* the MetricsCollector objects, in order of construction
  calls            \* per level, the log calls since the metrics were last reset

mvars == <<collectors, calls>>

VARIABLES
  winston,         \* the winston logger: its level, levels and transports
  sinks,           \* per transport, the records it has written, in order
  hist             \* what the last call on the Logger did, and the flushes

xvars == <<winston, sinks, hist>>

VARIABLES
  snapshot,        \* what the last getMetrics() returned, as its caller holds it
  procs            \* the callers of the Logger: where each is in its call

VARIABLES
  verbose,         \* the Verbose object: enabled, context, tracing
  printed          \* the last print() on it: the object then, the string

vvars == <<verbose, printed>>

cvars == <<snapshot, procs, vvars>>

lvars ==
  <<cfg, handles, out, flushTimer, loggerClosed, logged, mvars, xvars, cvars>>

vars == <<rvars, lvars>>

\* no call made yet, nothing flushed, nothing lost
NoHist ==
  [op |-> "none", raised |-> FALSE, threw |-> "none", batch |-> 0,
   dispatched |-> 0, sizeFlushes |-> 0, timerFlushes |-> 0,
   manualFlushes |-> 0, closes |-> 0, lost |-> 0, lateWrites |-> 0]

\* the sinks behind the winston logger are not looked at
WinstonUnused == winston = None /\ sinks = <<>>

\* no snapshot is held and no caller is followed through its call
VerboseUnused == verbose = None /\ printed = None

CallersUnused == snapshot = None /\ procs = <<>> /\ VerboseUnused

\* no Logger handle is in use
LoggerUnused ==
  /\ cfg = None
  /\ handles = <<>>
  /\ out = <<>>
  /\ flushTimer = FALSE
  /\ loggerClosed = FALSE
  /\ logged = 0
  /\ collectors = <<>>
  /\ calls = <<>>
  /\ WinstonUnused
  /\ hist = NoHist
  /\ CallersUnused

(***************************************************************************)
(* The fallback logger: winston logger of level 'info' over one Console    *)
(* transport, with the default (npm) levels.                               *)
(***************************************************************************)
FallbackLevel == "info"

\* a write reaches the console when the transport's level admits the
\* record's level; a level that is not a key of the logger's levels
\* compares as undefined and is not admitted
FallbackAccepts(level) ==
  /\ level \in DOMAIN NpmLevels
  /\ NpmLevels[FallbackLevel] >= NpmLevels[level]

Write(level, message, meta) ==
  [level |-> level, message |-> message, meta |-> meta]

RECURSIVE FallbackDeliver(_)
FallbackDeliver(ws) ==
  IF ws = <<>> THEN <<>>
  ELSE IF FallbackAccepts(Head(ws).level)
       THEN <<Head(ws)>> \o FallbackDeliver(Tail(ws))
       ELSE FallbackDeliver(Tail(ws))

(***************************************************************************)
(* The primary.  The constructor stores the value returned by the async    *)
(* factory Logger.createWithConfig, a Promise, without awaiting it; a      *)
(* Promise has none of the LoggerInterface methods, so calling one throws  *)
(* a TypeError before the primary pipeline is entered.                     *)
(***************************************************************************)
ResilientLoggerCtor ==
  [primaryLogger |-> "Promise", errorCount |-> 0, lastErrorTime |-> 0]

\* the outcome of this.primaryLogger.<method>(...)
PrimaryInvoke(p, fails) ==
  IF p = "Promise" THEN "TypeError" ELSE IF fails THEN "Error" ELSE "ok"

(***************************************************************************)
(* shouldUseFallback: the window check resets the count, then the          *)
(* threshold is tested.                                                    *)
(***************************************************************************)
\* the window check without its reset
CountAfterCheck_NoReset(ec, t, last) == ec

\* the window check resetting already at the interval
CountAfterCheck_AtInterval(ec, t, last) ==
  IF t - last >= errorResetInterval THEN 0 ELSE ec

CountAfterCheck(ec, t, last) ==
  IF t - last > errorResetInterval THEN 0 ELSE ec

\* the threshold test off by one
UseFallback_Strict(ec) == ec > maxErrors

UseFallback(ec) == ec >= maxErrors

shouldUseFallback(ec, t, last) == UseFallback(CountAfterCheck(ec, t, last))

DiagMessage == "Primary logger error"

\* handleError without the increment
handleError_NoCount(ec, t, last) ==
  [errorCount |-> ec, lastErrorTime |-> t,
   writes |-> <<Write("error", DiagMessage, ec)>>]

\* handleError stamping only the first failure of a window
handleError_FirstStamp(ec, t, last) ==
  [errorCount |-> ec + 1, lastErrorTime |-> IF ec = 0 THEN t ELSE last,
   writes |-> <<Write("error", DiagMessage, ec + 1)>>]

\* handleError: count the failure, stamp its time, write the diagnostic
handleError(ec, t, last) ==
  [errorCount |-> ec + 1, lastErrorTime |-> t,
   writes |-> <<Write("error", DiagMessage, ec + 1)>>]

\* the result of a call: the fields it leaves and what it did
Result(ec, last, primary, handled, raised, writes) ==
  [errorCount |-> ec, lastErrorTime |-> last, primary |-> primary,
   handled |-> handled, raised |-> raised, writes |-> writes]

\* log without its try/catch: the failure of the primary reaches the caller
log_NoCatch(ec, t, last, p, fails, level, message) ==
  LET ec1 == CountAfterCheck(ec, t, last) IN
  IF shouldUseFallback(ec, t, last)
  THEN Result(ec1, last, FALSE, FALSE, FALSE,
              <<Write(level, message, NoMeta)>>)
  ELSE IF PrimaryInvoke(p, fails) = "ok"
       THEN Result(0, last, TRUE, FALSE, FALSE, <<>>)
       ELSE Result(ec1, last, TRUE, FALSE, TRUE, <<>>)

\* the body of log(level, message)
log(ec, t, last, p, fails, level, message) ==
  LET ec1 == CountAfterCheck(ec, t, last) IN
  IF shouldUseFallback(ec, t, last)
  THEN Result(ec1, last, FALSE, FALSE, FALSE,
              <<Write(level, message, NoMeta)>>)
  ELSE IF PrimaryInvoke(p, fails) = "ok"
       THEN Result(0, last, TRUE, FALSE, FALSE, <<>>)
       ELSE LET h == handleError(ec1, t, last) IN
            Result(h.errorCount, h.lastErrorTime, TRUE, TRUE, FALSE,
                   h.writes \o <<Write(level, message, NoMeta)>>)

\* a setter that swallows the failure without handing it to handleError
setter_Swallow(ec, t, last, p, fails) ==
  Result(ec, last, TRUE, FALSE, FALSE, <<>>)

\* the body of setLevel / setVerbose / setVerboseFormat: proxy to the
\* primary, hand a failure to handleError
setter(ec, t, last, p, fails) ==
  IF PrimaryInvoke(p, fails) = "ok"
  THEN Result(ec, last, TRUE, FALSE, FALSE, <<>>)
  ELSE LET h == handleError(ec, t, last) IN
       Result(h.errorCount, h.lastErrorTime, TRUE, TRUE, FALSE, h.writes)

isHealthy == errorCount < maxErrors
getErrorCount == errorCount

LogOps == {"log"} \cup Levels
SetterOps == {"setLevel", "setVerbose", "setVerboseFormat"}

Call(op, level, message, r) ==
  [op |-> op, level |-> level, message |-> message, before |-> errorCount,
   lastBefore |-> lastErrorTime, primary |-> r.primary, handled |-> r.handled, raised |-> r.raised,
   writes |-> r.writes, delivered |-> FallbackDeliver(r.writes)]

NoCall ==
  [op |-> "none", level |-> None, message |-> None, before |-> 0,
   lastBefore |-> 0, primary |-> FALSE, handled |-> FALSE, raised |-> FALSE,
   writes |-> <<>>, delivered |-> <<>>]

RInit ==
  /\ primaryLogger = ResilientLoggerCtor.primaryLogger
  /\ sinkFails \in BOOLEAN
  /\ errorCount = ResilientLoggerCtor.errorCount
  /\ lastErrorTime = ResilientLoggerCtor.lastErrorTime
  /\ now = Epoch
  /\ call = NoCall
  /\ streak = 0
  /\ derived = <<>>
  /\ LoggerUnused

\* the run of failed primary attempts after a log call
StreakAfter(r) ==
  IF r.handled
  THEN IF now - lastErrorTime > errorResetInterval THEN 1 ELSE streak + 1
  ELSE IF r.primary THEN 0 ELSE streak

Apply(op, level, message, r) ==
  /\ r.errorCount <= MaxErrorCount
  /\ errorCount' = r.errorCount
  /\ lastErrorTime' = r.lastErrorTime
  /\ call' = Call(op, level, message, r)
  /\ streak' = IF op \in LogOps THEN StreakAfter(r) ELSE streak
  /\ UNCHANGED <<primaryLogger, sinkFails, now, derived>>
  /\ UNCHANGED lvars

ResilientLog ==
  \E level \in Levels, message \in Messages :
    Apply("log", level, message,
          log(errorCount, now, lastErrorTime, primaryLogger, sinkFails,
              level, message))

\* fatal / error / warn / info / debug / trace: each returns this.log(...)
ResilientLeveled ==
  \E level \in Levels, message \in Messages :
    Apply(level, level, message,
          log(errorCount, now, lastErrorTime, primaryLogger, sinkFails,
              level, message))

ResilientSetLevel ==
  Apply("setLevel", None, None,
        setter(errorCount, now, lastErrorTime, primaryLogger, sinkFails))

ResilientSetVerbose ==
  Apply("setVerbose", None, None,
        setter(errorCount, now, lastErrorTime, primaryLogger, sinkFails))

ResilientSetVerboseFormat ==
  Apply("setVerboseFormat", None, None,
        setter(errorCount, now, lastErrorTime, primaryLogger, sinkFails))

resetErrorCount ==
  /\ errorCount' = 0
  /\ lastErrorTime' = 0
  /\ call' = [NoCall EXCEPT !.op = "resetErrorCount", !.before = errorCount,
                        !.lastBefore = lastErrorTime]
  /\ streak' = 0
  /\ UNCHANGED <<primaryLogger, sinkFails, now, derived>>
  /\ UNCHANGED lvars

\* time passes between two calls
Advance ==
  \E d \in Delays :
    /\ now + d <= Epoch + MaxElapsed
    /\ now' = now + d
    /\ call' = [NoCall EXCEPT !.op = "advance", !.before = errorCount,
                          !.lastBefore = lastErrorTime]
    /\ UNCHANGED <<primaryLogger, sinkFails, errorCount, lastErrorTime, streak>>
    /\ UNCHANGED derived
    /\ UNCHANGED lvars

RNext ==
  \/ ResilientLog
  \/ ResilientLeveled
  \/ ResilientSetLevel
  \/ ResilientSetVerbose
  \/ ResilientSetVerboseFormat
  \/ resetErrorCount
  \/ Advance

SpecResilient == RInit /\ [][RNext]_vars

(***************************************************************************)
(* The handles a ResilientLogger hands out.  withContext, withTracing and  *)
(* child return what the same method of the primary returns, and the       *)
(* ResilientLogger itself when that call throws.                           *)
(***************************************************************************)
\* the body of withContext / withTracing / child: the result of the call
\* and the handle returned
derive(ec, t, last, p, fails) ==
  IF PrimaryInvoke(p, fails) = "TypeError"
  THEN LET h == handleError(ec, t, last) IN
       [result |-> Result(h.errorCount, h.lastErrorTime, TRUE, TRUE, FALSE,
                          h.writes),
        returned |-> "this"]
  ELSE [result |-> Result(ec, last, TRUE, FALSE, FALSE, <<>>),
        returned |-> "Logger"]

DeriveOps == {"withContext", "withTracing", "child"}

ResilientDerive ==
  \E op \in DeriveOps :
    LET d == derive(errorCount, now, lastErrorTime, primaryLogger, sinkFails)
    IN /\ Len(derived) < MaxHandles
       /\ d.result.errorCount <= MaxErrorCount
       /\ derived' = Append(derived, d.returned)
       /\ errorCount' = d.result.errorCount
       /\ lastErrorTime' = d.result.lastErrorTime
       /\ call' = Call(op, None, None, d.result)
       /\ UNCHANGED <<primaryLogger, sinkFails, now, streak>>
       /\ UNCHANGED lvars

\* log(level, message) on a Logger handle of the primary: nothing catches
\* what its sinks throw
LoggerHandleLog(ec, last, fails) == Result(ec, last, TRUE, FALSE, fails, <<>>)

\* log(level, message) on a handle that was returned
HandleLog ==
  \E k \in DOMAIN derived, level \in Levels, message \in Messages :
    Apply("log", level, message,
          IF derived[k] = "this"
          THEN log(errorCount, now, lastErrorTime, primaryLogger, sinkFails,
                   level, message)
          ELSE LoggerHandleLog(errorCount, lastErrorTime, sinkFails))

DNext ==
  \/ ResilientDerive
  \/ HandleLog
  \/ Advance

SpecResilientHandles == RInit /\ [][DNext]_vars

TypeOK ==
  /\ errorCount \in 0..MaxErrorCount
  /\ lastErrorTime \in 0..(Epoch + MaxElapsed)
  /\ now \in Epoch..(Epoch + MaxElapsed)
  /\ streak \in 0..errorCount

(***************************************************************************)
(* Logger (src/lib/Logger.ts): the root handle made by createWithConfig    *)
(* and the handles derived from it.                                        *)
(***************************************************************************)
\* a LoggerContext: a map from some of the keys to values
Contexts == UNION {[D -> Vals] : D \in SUBSET Keys}

\* the TracingContext values passed to withTracing
Traces ==
  {[traceId |-> "t1", spanId |-> "s1", parentSpanId |-> "p1"],
   [traceId |-> "t2", spanId |-> "s2", parentSpanId |-> None]}

\* the strings generateId can return
GenIds == {"g1"}

NoTrace == [traceId |-> None, spanId |-> None, parentSpanId |-> None]

\* object spread { ...c, ...e }: the keys of both, e wins on a collision
Merge_ReceiverWins(c, e) ==
  [k \in DOMAIN c \cup DOMAIN e |-> IF k \in DOMAIN c THEN c[k] ELSE e[k]]

Merge(c, e) ==
  [k \in DOMAIN c \cup DOMAIN e |-> IF k \in DOMAIN e THEN e[k] ELSE c[k]]

\* new Logger(config): context and tracing undefined, an empty buffer of
\* its own, no flush timer, a config of its own copied from the one given
\* (level is its config.level).  logger is the winston logger the handle
\* writes to, given by the default meta it adds to a record (none for the
\* logger made by initialize); parent and extra record the handle it was
\* derived from and the argument of the derivation (none: <<>>)
NewLogger(parent) ==
  [hasContext |-> FALSE, context |-> <<>>, tracing |-> NoTrace,
   buffer |-> <<>>, logger |-> <<>>, parent |-> parent, extra |-> <<>>,
   metricsCollector |-> IF cfg.metrics THEN Len(collectors) + 1 ELSE 0,
   level |-> IF parent = 0 THEN cfg.level ELSE handles[parent].level]

(***************************************************************************)
(* MetricsCollector (the class at the end of src/lib/Core.ts).             *)
(***************************************************************************)
\* the label keys in use, ranked as localeCompare orders them
LabelRank ==
  [action |-> 1, error_type |-> 2, level |-> 3, method |-> 4, status_code |-> 5]

\* a label object is the sequence of its <<key, value>> entries in insertion
\* order; no labels argument and an empty object are both the empty sequence
NoLabels == <<>>

\* the entries left in insertion order
SortLabels_AsGiven(labels) == labels

\* Object.entries(labels).sort(([a], [b]) => a.localeCompare(b))
RECURSIVE SortLabels(_)
SortLabels(labels) ==
  IF labels = <<>> THEN <<>>
  ELSE LET p == Head(labels)
           rest == SortLabels(Tail(labels))
           before == SelectSeq(rest, LAMBDA q : LabelRank[q[1]] < LabelRank[p[1]])
           after == SelectSeq(rest, LAMBDA q : LabelRank[q[1]] >= LabelRank[p[1]])
       IN before \o <<p>> \o after

\* A string that getMetricKey builds is the sequence of its pieces: the
\* characters { } = " and , each on its own, and the runs of other
\* characters between them.  A name, label key or label value is one run,
\* except the ones spelled here, which contain those characters.
Spelling ==
  ("jobs{method=\"GET\"}" :>
     <<"jobs", "{", "method", "=", "\"", "GET", "\"", "}">>)
  @@ ("GET\",status_code=\"200" :>
        <<"GET", "\"", ",", "status_code", "=", "\"", "200">>)

Spell(text) == IF text \in DOMAIN Spelling THEN Spelling[text] ELSE <<text>>

\* .map(([key, value]) => `${key}="${value}"`).join(',')
RECURSIVE JoinLabels(_)
JoinLabels(entries) ==
  IF entries = <<>> THEN <<>>
  ELSE Spell(Head(entries)[1]) \o <<"=", "\"">> \o Spell(Head(entries)[2])
         \o <<"\"">>
         \o (IF Tail(entries) = <<>> THEN <<>>
             ELSE <<",">> \o JoinLabels(Tail(entries)))

\* getMetricKey: the name alone without labels, else name{k="v",...} over the
\* sorted entries
getMetricKey(name, labels) ==
  IF labels = NoLabels THEN Spell(name)
  ELSE Spell(name) \o <<"{">> \o JoinLabels(SortLabels(labels)) \o <<"}">>

\* new MetricsCollector(config), as the constructor of a Logger makes it:
\* only when config.metrics.enabled is set, with nothing recorded
MetricsCollector ==
  [enabled |-> TRUE, counters |-> <<>>, histograms |-> <<>>, gauges |-> <<>>]

\* the collectors after the constructor of a Logger has run
Constructed == IF cfg.metrics THEN Append(collectors, MetricsCollector)
               ELSE collectors

\* the key of the counter logs_total with the label level
LogsTotal(level) == getMetricKey("logs_total", <<<<"level", level>>>>)

\* the counter set to 1 whatever it held
incrementCounter_Overwrite(counters, key) ==
  [k \in DOMAIN counters \cup {key} |-> IF k = key THEN 1 ELSE counters[k]]

\* incrementCounter: (counters.get(key) || 0) + 1
incrementCounter(counters, key) ==
  [k \in DOMAIN counters \cup {key} |->
     IF k = key THEN (IF key \in DOMAIN counters THEN counters[key] ELSE 0) + 1
     ELSE counters[k]]

\* recordHistogram: push the value on the array of the key
recordHistogram(histograms, key, value) ==
  [k \in DOMAIN histograms \cup {key} |->
     IF k = key
     THEN Append(IF key \in DOMAIN histograms THEN histograms[key] ELSE <<>>,
                 value)
     ELSE histograms[k]]

\* setGauge: the last value written
setGauge(gauges, key, value) ==
  [k \in DOMAIN gauges \cup {key} |-> IF k = key THEN value ELSE gauges[k]]

\* incrementCounter(name, labels) on collector c
Counted(c, name, labels) ==
  IF ~c.enabled THEN c
  ELSE [c EXCEPT !.counters = incrementCounter(@, getMetricKey(name, labels))]

\* recordHistogram(name, value, labels) on collector c
Observed(c, name, value, labels) ==
  IF ~c.enabled THEN c
  ELSE [c EXCEPT
          !.histograms = recordHistogram(@, getMetricKey(name, labels), value)]

\* setGauge(name, value, labels) on collector c
Gauged(c, name, value, labels) ==
  IF ~c.enabled THEN c
  ELSE [c EXCEPT !.gauges = setGauge(@, getMetricKey(name, labels), value)]

\* reset() leaving the gauges
reset_KeepGauges(c) == [c EXCEPT !.counters = <<>>, !.histograms = <<>>]

\* reset(): counters, histograms and gauges cleared
reset(c) ==
  [c EXCEPT !.counters = <<>>, !.histograms = <<>>, !.gauges = <<>>]

\* a message is the set of the words that includes() is asked about which
\* it contains, and its length
Words ==
  {"Request", "Response", "Database", "Query", "Error", "Exception",
   "User", "action"}

Includes(message, word) == word \in message.words

\* the message logged where the text of the message does not matter
PlainMessage == [words |-> {}, length |-> 5]

\* the fields of meta that recordCustomMetrics reads
MetaFields ==
  {"statusCode", "method", "query", "duration", "errorType", "action"}

\* a meta argument: undefined, or an object with some of the fields, each
\* with the value below; circular: the object refers to itself, so that
\* JSON.stringify throws on it
\* { statusCode: 200, method: "GET", query: "q", duration: 7,
\*   errorType: "E", action: "a" }
AbsentMeta == [defined |-> FALSE, circular |-> FALSE, has |-> {}]

\* the label made of a field: statusCode.toString(), and the strings as is
LabelText == [statusCode |-> "200", method |-> "GET", errorType |-> "E",
              action |-> "a"]

\* the numbers read from meta as they are
FieldNumber == [duration |-> 7]

\* the length of "key":value in JSON.stringify(meta), field by field
JsonLength == [statusCode |-> 16, method |-> 14, query |-> 11,
               duration |-> 12, errorType |-> 15, action |-> 12]

RECURSIVE SumOver(_, _)
SumOver(f, S) ==
  IF S = {} THEN 0
  ELSE LET x == CHOOSE y \in S : TRUE IN f[x] + SumOver(f, S \ {x})

\* JSON.stringify(meta).length: the braces, the fields, the commas
MetaSize(meta) ==
  2 + SumOver(JsonLength, meta.has)
    + (IF meta.has = {} THEN 0 ELSE Cardinality(meta.has) - 1)

\* the test made on every field without looking at meta
Present_Always(meta, field) == TRUE

\* if (meta?.field): meta is given and has the field
Present(meta, field) == meta.defined /\ field \in meta.has

\* the label value read from the field
FieldLabel(meta, field) ==
  IF meta.defined /\ field \in meta.has THEN LabelText[field] ELSE None

\* what recordLog does, statement by statement: a counter incremented, a
\* value pushed on a histogram, or an exception thrown.  ident is the name
\* with the label set, whatever the order the labels were given in
CounterStep(name, labels) ==
  [kind |-> "counter", key |-> getMetricKey(name, labels),
   ident |-> <<name, {labels[i] : i \in DOMAIN labels}>>, value |-> 0]

HistogramStep(name, value, labels) ==
  [kind |-> "histogram", key |-> getMetricKey(name, labels),
   ident |-> <<name, {labels[i] : i \in DOMAIN labels}>>, value |-> value]

ThrowStep ==
  [kind |-> "throw", key |-> getMetricKey("", NoLabels),
   ident |-> <<"", {}>>, value |-> 0]

\* the counter of a pattern, then the labelled counter of each field present
Pattern(matches, name, labelled) ==
  IF matches THEN <<CounterStep(name, NoLabels)>> \o labelled ELSE <<>>

Labelled(meta, field, name, label) ==
  IF Present(meta, field)
  THEN <<CounterStep(name, <<<<label, FieldLabel(meta, field)>>>>)>>
  ELSE <<>>

\* recordCustomMetrics(message, meta)
recordCustomMetrics(message, meta) ==
  Pattern(Includes(message, "Request") \/ Includes(message, "Response"),
          "http_requests_total",
          Labelled(meta, "statusCode", "http_requests_total", "status_code")
            \o Labelled(meta, "method", "http_requests_total", "method"))
  \o Pattern(Includes(message, "Database") \/ Includes(message, "Query"),
             "database_queries_total",
             IF Present(meta, "query")
             THEN <<HistogramStep("database_query_duration",
                                  IF Present(meta, "duration")
                                  THEN FieldNumber["duration"]
                                  ELSE 0,
                                  NoLabels)>>
             ELSE <<>>)
  \o Pattern(Includes(message, "Error") \/ Includes(message, "Exception"),
             "errors_total",
             Labelled(meta, "errorType", "errors_total", "error_type"))
  \o Pattern(Includes(message, "User") /\ Includes(message, "action"),
             "user_actions_total",
             Labelled(meta, "action", "user_actions_total", "action"))

\* recordLog without the observation of the message length
recordLogSteps_NoLength(level, message, meta) ==
  <<CounterStep("logs_total", <<<<"level", level>>>>)>>
  \o recordCustomMetrics(message, meta)

\* the statements of recordLog(level, message, meta), in order
recordLogSteps(level, message, meta) ==
  <<CounterStep("logs_total", <<<<"level", level>>>>),
    HistogramStep("log_message_length", message.length, <<<<"level", level>>>>)>>
  \o (IF meta.defined
      THEN IF meta.circular THEN <<ThrowStep>>
           ELSE <<HistogramStep("log_metadata_size", MetaSize(meta),
                                <<<<"level", level>>>>)>>
      ELSE <<>>)
  \o recordCustomMetrics(message, meta)

\* the steps run on collector c up to the first that throws
RECURSIVE Run(_, _, _)
Run(c, steps, done) ==
  IF steps = <<>> THEN [collector |-> c, threw |-> FALSE, done |-> done]
  ELSE LET s == Head(steps) IN
       IF s.kind = "throw"
       THEN [collector |-> c, threw |-> TRUE, done |-> done]
       ELSE Run(IF s.kind = "counter"
                THEN [c EXCEPT !.counters = incrementCounter(@, s.key)]
                ELSE [c EXCEPT !.histograms = recordHistogram(@, s.key, s.value)],
                Tail(steps), done + 1)

\* recordLog(level, message, meta) on collector c: the collector it leaves,
\* whether it threw, and how many of its statements were run
recordLog(c, level, message, meta) ==
  IF ~c.enabled THEN [collector |-> c, threw |-> FALSE, done |-> 0]
  ELSE Run(c, recordLogSteps(level, message, meta), 0)

\* log(): if (this.metricsCollector) this.metricsCollector.recordLog(...)
Recorded(h, level, message, meta) ==
  LET c == handles[h].metricsCollector IN
  IF c = 0 THEN [collectors |-> collectors, threw |-> FALSE]
  ELSE LET r == recordLog(collectors[c], level, message, meta) IN
       [collectors |-> [collectors EXCEPT ![c] = r.collector],
        threw |-> r.threw]

\* the derived handle forgetting the assignment and keeping the collector
\* its constructor made
Inherit_KeepOwn(own, parents) == own

\* newLogger.metricsCollector = this.metricsCollector
Inherit(own, parents) == parents

\* getMetrics() on handle h: the counters of its collector (None without one)
getMetrics(h) ==
  IF handles[h].metricsCollector = 0 THEN None
  ELSE collectors[handles[h].metricsCollector].counters

\* one more log call at the level
Called(level) ==
  [l \in DOMAIN calls \cup {level} |->
     IF l = level THEN (IF level \in DOMAIN calls THEN calls[level] ELSE 0) + 1
     ELSE calls[l]]

\* String.prototype.toUpperCase on the level strings
toUpperCase ==
  [fatal |-> "FATAL", error |-> "ERROR", warn |-> "WARN", info |-> "INFO",
   debug |-> "DEBUG", trace |-> "TRACE"]

\* the enum LogLevel: its members, named in upper case as log() looks them
\* up, numbered in the order of the levels
LogLevel ==
  [TRACE |-> 0, DEBUG |-> 1, INFO |-> 2, WARN |-> 3, ERROR |-> 4, FATAL |-> 5]

\* LogLevel[value]: the reverse mapping of a numeric enum gives the name of
\* the member that has the value
MemberName(value) ==
  CHOOSE name \in DOMAIN LogLevel : LogLevel[name] = value

\* the LogEntry built by log(): its level is the member of the enum; passed
\* records the level string the call was given
Entry(h, id, level) ==
  [id |-> id, by |-> h, level |-> LogLevel[toUpperCase[level]],
   passed |-> level,
   hasContext |-> handles[h].hasContext, context |-> handles[h].context]

\* the call this.logger.log(level, message, { meta, context, tracing }) that
\* flush() on handle h makes for entry e, with level = LogLevel[entry.level]
Dispatch(e, h) ==
  [id |-> e.id, by |-> e.by, level |-> MemberName(e.level),
   passed |-> e.passed, hasContext |-> e.hasContext,
   context |-> e.context, tracing |-> handles[h].tracing,
   defaultMeta |-> handles[h].logger]

\* the call this.logger.log(level, message, { meta, context, tracing }) that
\* log() makes in sync mode, with the level it was given
DispatchNow(level, e, h) == [Dispatch(e, h) EXCEPT !.level = level]

\* the entries of the buffer dispatched last to first
DispatchAll_Reversed(buf, h) ==
  [i \in 1..Len(buf) |-> Dispatch(buf[Len(buf) + 1 - i], h)]

\* flush() on handle h: the calls made for the entries of the buffer, in
\* order, with the tracing and on the winston logger of h
RECURSIVE DispatchAll(_, _)
DispatchAll(buf, h) ==
  IF buf = <<>> THEN <<>>
  ELSE <<Dispatch(Head(buf), h)>> \o DispatchAll(Tail(buf), h)

\* async, bufferSize (0: none), flushInterval (FALSE: none),
\* metrics.enabled and level of the config
Configs ==
  {[async |-> FALSE, bufferSize |-> 0, flushInterval |-> FALSE,
    metrics |-> TRUE, level |-> "info"],
   [async |-> TRUE, bufferSize |-> 0, flushInterval |-> FALSE,
    metrics |-> FALSE, level |-> "info"],
   [async |-> TRUE, bufferSize |-> BufferSize, flushInterval |-> TRUE,
    metrics |-> TRUE, level |-> "info"]}

RUnused ==
  /\ primaryLogger = None
  /\ sinkFails = FALSE
  /\ errorCount = 0
  /\ lastErrorTime = 0
  /\ now = Epoch
  /\ call = NoCall
  /\ streak = 0
  /\ derived = <<>>

\* createWithConfig with one of the configs: the constructor, then
\* initialize(), which starts the timer when the logger is async and has a
\* flushInterval
Created(configs) ==
  /\ cfg \in configs
  /\ collectors = IF cfg.metrics THEN <<MetricsCollector>> ELSE <<>>
  /\ handles = <<[NewLogger(0) EXCEPT
                    !.metricsCollector = IF cfg.metrics THEN 1 ELSE 0]>>
  /\ calls = <<>>
  /\ out = <<>>
  /\ flushTimer = (cfg.async /\ cfg.flushInterval)
  /\ loggerClosed = FALSE
  /\ logged = 0
  /\ WinstonUnused
  /\ hist = NoHist
  /\ CallersUnused
  /\ RUnused

LInit == Created(Configs)

Handles == DOMAIN handles

\* the size trigger firing only above the threshold
SizeReached_Over(len, size) == size > 0 /\ len > size

\* this.config.bufferSize && this.buffer.length >= this.config.bufferSize
SizeReached(len, size) == size > 0 /\ len >= size

\* log(level, message, meta) on handle h: the entry is built, the metrics
\* are recorded, and then the entry is buffered or dispatched; an exception
\* thrown by recordLog ends the call there
LoggerLogOf(h, level, message, meta) ==
  LET e == Entry(h, logged + 1, level)
      buf == Append(handles[h].buffer, e)
      rec == Recorded(h, level, message, meta)
  IN /\ logged < MaxRecords
     /\ logged' = logged + 1
     /\ collectors' = rec.collectors
     /\ calls' = Called(level)
     /\ IF rec.threw
        THEN /\ out' = out
             /\ handles' = handles
        ELSE IF cfg.async
        THEN IF SizeReached(Len(buf), cfg.bufferSize)
             THEN /\ out' = out \o DispatchAll(buf, h)
                  /\ handles' = [handles EXCEPT ![h].buffer = <<>>]
             ELSE /\ out' = out
                  /\ handles' = [handles EXCEPT ![h].buffer = buf]
        ELSE /\ out' = Append(out, DispatchNow(level, e, h))
             /\ handles' = handles
     /\ UNCHANGED <<cfg, flushTimer, loggerClosed>>
     /\ UNCHANGED rvars

\* log(level, message) on handle h
LoggerLog(h, level) == LoggerLogOf(h, level, PlainMessage, AbsentMeta)

Log ==
  \E h \in Handles, level \in LoggedLevels :
    LoggerLog(h, level) /\ UNCHANGED <<xvars, cvars>>

\* the first n elements of a sequence
Take(s, n) == SubSeq(s, 1, n)

\* flush() leaving the entries in the buffer
Swapped_Keep(buf) == buf

\* this.buffer = [] in flush(), done before the entries are dispatched
Swapped(buf) == <<>>

\* flush() on handle h when the winston logger throws at the call for entry
\* n + 1 of the batch (n = the length of the batch: it does not throw): the
\* buffer is emptied first, n calls are made, the rest of the batch is gone
LoggerFlushUpTo(h, n) ==
  /\ out' = out \o Take(DispatchAll(handles[h].buffer, h), n)
  /\ handles' = [handles EXCEPT ![h].buffer = Swapped(@)]

\* flush() on handle h
LoggerFlush(h) == LoggerFlushUpTo(h, Len(handles[h].buffer))

Flush ==
  \E h \in Handles :
    /\ LoggerFlush(h)
    /\ UNCHANGED <<cfg, flushTimer, loggerClosed, logged, mvars, xvars>>
    /\ UNCHANGED cvars
    /\ UNCHANGED rvars

\* the setInterval callback of the root: this.flush()
TimerTick ==
  /\ flushTimer
  /\ LoggerFlush(1)
  /\ UNCHANGED <<cfg, flushTimer, loggerClosed, logged, mvars, xvars>>
  /\ UNCHANGED cvars
  /\ UNCHANGED rvars

\* close() on handle h: clear the timer the handle owns, flush, close the
\* winston logger
Close ==
  \E h \in Handles :
    /\ flushTimer' = IF h = 1 THEN FALSE ELSE flushTimer
    /\ LoggerFlush(h)
    /\ loggerClosed' = TRUE
    /\ UNCHANGED <<cfg, logged, mvars, xvars>>
    /\ UNCHANGED cvars
    /\ UNCHANGED rvars

Derive(new) ==
  /\ Len(handles) < MaxHandles
  /\ handles' = Append(handles, new)
  /\ collectors' = Constructed
  /\ UNCHANGED <<cfg, out, flushTimer, loggerClosed, logged, calls, xvars>>
  /\ UNCHANGED cvars
  /\ UNCHANGED rvars

\* withContext(context) on handle h
WithContext ==
  \E h \in Handles, extra \in Extras :
    Derive([NewLogger(h) EXCEPT
              !.hasContext = TRUE,
              !.context = Merge(handles[h].context, extra),
              !.logger = handles[h].logger,
              !.metricsCollector =
                 Inherit(NewLogger(h).metricsCollector,
                         handles[h].metricsCollector),
              !.extra = extra])

\* generateTracingContext(): two generated ids, no parentSpanId
generateTracingContext(t, sp) ==
  [traceId |-> t, spanId |-> sp, parentSpanId |-> None]

\* the given trace laid over the receiver's, so that a field the given trace
\* lacks is taken from the receiver
NewTracing_Merge(own, given) ==
  [f \in DOMAIN given |-> IF given[f] = None THEN own[f] ELSE given[f]]

\* newLogger.tracing = tracing || this.generateTracingContext(): the trace
\* of the new handle, from the receiver's (own) and the one given or generated
NewTracing(own, given) == given

\* withTracing(tracing?) on handle h: the given trace, or a generated one
WithTracing ==
  \E h \in Handles :
    \/ \E t \in Traces :
         Derive([NewLogger(h) EXCEPT
                   !.tracing = NewTracing(handles[h].tracing, t),
                   !.extra = t,
                   !.logger = handles[h].logger,
                   !.metricsCollector =
                      Inherit(NewLogger(h).metricsCollector,
                              handles[h].metricsCollector)])
    \/ \E t \in GenIds, sp \in GenIds :
         Derive([NewLogger(h) EXCEPT
                   !.tracing = NewTracing(handles[h].tracing,
                                          generateTracingContext(t, sp)),
                   !.logger = handles[h].logger,
                   !.metricsCollector =
                      Inherit(NewLogger(h).metricsCollector,
                              handles[h].metricsCollector)])

\* child(defaultMeta?) on handle h
Child ==
  \E h \in Handles, extra \in Extras :
    Derive([NewLogger(h) EXCEPT
              !.hasContext = TRUE,
              !.context = Merge(handles[h].context, extra),
              !.logger = Merge(handles[h].logger, extra),
              !.metricsCollector =
                 Inherit(NewLogger(h).metricsCollector,
                         handles[h].metricsCollector),
              !.extra = extra])

\* resetMetrics() on handle h: this.metricsCollector?.reset()
ResetMetrics ==
  \E h \in Handles :
    /\ collectors' =
         IF handles[h].metricsCollector = 0 THEN collectors
         ELSE [collectors EXCEPT ![handles[h].metricsCollector] = reset(@)]
    /\ calls' = IF handles[h].metricsCollector = 0 THEN calls ELSE <<>>
    /\ UNCHANGED <<cfg, handles, out, flushTimer, loggerClosed, logged, xvars>>
    /\ UNCHANGED cvars
    /\ UNCHANGED rvars

LNext ==
  \/ Log
  \/ Flush
  \/ TimerTick
  \/ Close
  \/ WithContext
  \/ WithTracing
  \/ Child
  \/ ResetMetrics

SpecLogger == LInit /\ [][LNext]_vars

\* the configs above that buffer, with a context: config.context
ConfigContexts == {[k \in {"b"} |-> 2], [k \in Keys |-> 2]}

ContextConfigs ==
  {[f \in DOMAIN c \cup {"context"} |->
      IF f = "context" THEN context ELSE c[f]] :
     c \in {k \in Configs : k.async /\ k.flushInterval},
     context \in ConfigContexts}

\* a logger created with a context in its config, and its handles
TInit == Created(ContextConfigs)

SpecContext == TInit /\ [][LNext]_vars

LTypeOK ==
  /\ Len(handles) \in 1..MaxHandles
  /\ logged \in 0..MaxRecords
  /\ \A h \in Handles : handles[h].context \in Contexts

(***************************************************************************)
(* The winston logger made by initialize() and its transports: a           *)
(* synchronous root Logger, its level and the levels of its sinks.         *)
(***************************************************************************)
\* a levels option passed as config.levels
CustomLevels ==
  [fatal |-> 0, error |-> 1, warn |-> 2, info |-> 3, debug |-> 4, trace |-> 5]

\* levels: this.config.levels || winston.config.npm.levels
WinstonLevels(custom) == IF custom THEN CustomLevels ELSE NpmLevels

\* level: level || config?.level || 'info' in createConsoleTransport and
\* createFileTransport, where level is the level of the logger's config and
\* configured the level of the sink's own config
TransportLevel(level, configured) ==
  IF level # None THEN level
  ELSE IF configured # None THEN configured ELSE "info"

\* createTransports: one transport for each configured sink
createTransports(transportConfig, level) ==
  [i \in DOMAIN transportConfig |->
     [sink |-> transportConfig[i].sink,
      level |-> TransportLevel(level, transportConfig[i].level)]]

\* a winston transport writes a record when the levels of the logger rank
\* the transport's level (the logger's when it has none) at or above the
\* record's; a level that is no key of the levels compares as undefined
TransportAccepts(t, loggerLevel, levels, level) ==
  LET min == IF t.level # None THEN t.level ELSE loggerLevel IN
  /\ min \in DOMAIN levels
  /\ level \in DOMAIN levels
  /\ levels[min] >= levels[level]

\* transportConfig: the sinks and the level configured for each (None: none)
SinkConfigs ==
  {<<[sink |-> "console", level |-> None]>>,
   <<[sink |-> "console", level |-> "warn"],
     [sink |-> "app.log", level |-> "info"],
     [sink |-> "error.log", level |-> "error"]>>}

\* config.level of the loggers created
CreatedLevels == {"info", "warn"}

LevelConfigs ==
  {[async |-> FALSE, bufferSize |-> 0, flushInterval |-> FALSE,
    metrics |-> FALSE, level |-> l, customLevels |-> c,
    transportConfig |-> tc] :
     l \in CreatedLevels, c \in BOOLEAN, tc \in SinkConfigs}

\* createWithConfig of a synchronous logger: the constructor, then
\* initialize(), which creates the transports and the winston logger
VInit ==
  /\ cfg \in LevelConfigs
  /\ collectors = <<>>
  /\ calls = <<>>
  /\ handles = <<NewLogger(0)>>
  /\ winston = [level |-> cfg.level,
                levels |-> WinstonLevels(cfg.customLevels),
                transports |-> createTransports(cfg.transportConfig, cfg.level)]
  /\ sinks = [i \in DOMAIN cfg.transportConfig |-> <<>>]
  /\ out = <<>>
  /\ flushTimer = FALSE
  /\ loggerClosed = FALSE
  /\ logged = 0
  /\ hist = NoHist
  /\ CallersUnused
  /\ RUnused

\* what the transports have written after the call logger.log(level, ...)
Deliver(rec) ==
  [i \in DOMAIN sinks |->
     IF TransportAccepts(winston.transports[i], winston.level,
                         winston.levels, rec.level)
     THEN Append(sinks[i], rec) ELSE sinks[i]]

\* log(level, message) on a handle, and what winston does with the call
LevelLog ==
  \E h \in Handles, level \in Levels :
    /\ LoggerLog(h, level)
    /\ sinks' = Deliver([id |-> logged + 1, level |-> level])
    /\ UNCHANGED <<winston, hist, cvars>>

\* setLevel(level) on a handle: the level of its own config and the level
\* of the winston logger, which the handles share
SetLevel ==
  \E h \in Handles, level \in Levels :
    /\ handles' = [handles EXCEPT ![h].level = level]
    /\ winston' = [winston EXCEPT !.level = level]
    /\ UNCHANGED <<cfg, out, flushTimer, loggerClosed, logged, mvars>>
    /\ UNCHANGED <<sinks, hist>>
    /\ UNCHANGED cvars
    /\ UNCHANGED rvars

getLevel(h) == handles[h].level

VNext ==
  \/ LevelLog
  \/ SetLevel

SpecLevels == VInit /\ [][VNext]_vars

(***************************************************************************)
(* A root Logger watched while it buffers, flushes and closes, over a      *)
(* winston logger whose log() and close() may throw.                       *)
(***************************************************************************)
FInit == LInit

\* clearInterval left out of close()
ClearedTimer_Keep(t) == t

\* if (this.flushTimer) clearInterval(this.flushTimer)
ClearedTimer(t) == FALSE

\* a call that settles without raising whatever the winston logger threw
After_Swallowed(op, trigger, len, n, releaseThrows) ==
  [op |-> op,
   raised |-> FALSE,
   threw |-> IF n < len THEN "dispatch"
             ELSE IF releaseThrows THEN "release" ELSE "none",
   batch |-> len,
   dispatched |-> n,
   sizeFlushes |-> hist.sizeFlushes + IF trigger = "size" THEN 1 ELSE 0,
   timerFlushes |->
     hist.timerFlushes + IF trigger = "timer" /\ len > 0 THEN 1 ELSE 0,
   manualFlushes |->
     hist.manualFlushes + IF trigger = "flush" /\ len > 0 THEN 1 ELSE 0,
   closes |-> hist.closes + IF op = "close" THEN 1 ELSE 0,
   lost |-> hist.lost + (len - n),
   lateWrites |-> hist.lateWrites + IF loggerClosed THEN n ELSE 0]

\* what a call did: it handed a batch of len entries to dispatch on the
\* trigger given, n of them were dispatched before the winston logger threw
\* (n = len: it did not), and releasing the winston logger threw or not
After(op, trigger, len, n, releaseThrows) ==
  [op |-> op,
   raised |-> n < len \/ releaseThrows,
   threw |-> IF n < len THEN "dispatch"
             ELSE IF releaseThrows THEN "release" ELSE "none",
   batch |-> len,
   dispatched |-> n,
   sizeFlushes |-> hist.sizeFlushes + IF trigger = "size" THEN 1 ELSE 0,
   timerFlushes |->
     hist.timerFlushes + IF trigger = "timer" /\ len > 0 THEN 1 ELSE 0,
   manualFlushes |->
     hist.manualFlushes + IF trigger = "flush" /\ len > 0 THEN 1 ELSE 0,
   closes |-> hist.closes + IF op = "close" THEN 1 ELSE 0,
   lost |-> hist.lost + (len - n),
   lateWrites |-> hist.lateWrites + IF loggerClosed THEN n ELSE 0]

\* log(level, message) on the root
FLog ==
  \E level \in LoggedLevels :
    LET e == Entry(1, logged + 1, level)
        buf == Append(handles[1].buffer, e)
        flushes == cfg.async /\ SizeReached(Len(buf), cfg.bufferSize)
        batch == IF ~cfg.async THEN <<e>> ELSE IF flushes THEN buf ELSE <<>>
    IN \E n \in 0..Len(batch) :
         /\ logged < MaxLogs
         /\ logged' = logged + 1
         /\ collectors' =
              Recorded(1, level, PlainMessage, AbsentMeta).collectors
         /\ calls' = Called(level)
         /\ out' = out \o Take(IF cfg.async THEN DispatchAll(batch, 1)
                                 ELSE <<DispatchNow(level, e, 1)>>, n)
         /\ handles' =
              [handles EXCEPT
                 ![1].buffer = IF ~cfg.async THEN @
                               ELSE IF flushes THEN Swapped(buf) ELSE buf]
         /\ hist' = After("log",
                          IF ~cfg.async THEN "sync"
                          ELSE IF flushes THEN "size" ELSE "none",
                          Len(batch), n, FALSE)
         /\ UNCHANGED <<cfg, flushTimer, loggerClosed, winston, sinks>>
         /\ UNCHANGED cvars
         /\ UNCHANGED rvars

\* flush() on the root
FFlush ==
  \E n \in 0..Len(handles[1].buffer) :
    /\ LoggerFlushUpTo(1, n)
    /\ hist' = After("flush", "flush", Len(handles[1].buffer), n, FALSE)
    /\ UNCHANGED <<cfg, flushTimer, loggerClosed, logged, mvars>>
    /\ UNCHANGED <<winston, sinks>>
    /\ UNCHANGED cvars
    /\ UNCHANGED rvars

\* the setInterval callback of the root: this.flush()
FTick ==
  \E n \in 0..Len(handles[1].buffer) :
    /\ flushTimer
    /\ LoggerFlushUpTo(1, n)
    /\ hist' = After("tick", "timer", Len(handles[1].buffer), n, FALSE)
    /\ UNCHANGED <<cfg, flushTimer, loggerClosed, logged, mvars>>
    /\ UNCHANGED <<winston, sinks>>
    /\ UNCHANGED cvars
    /\ UNCHANGED rvars

\* close() on the root: clear the timer, flush what is buffered, then call
\* close() on the winston logger, which is not reached when the flush throws
FClose ==
  \E n \in 0..Len(handles[1].buffer), releaseThrows \in BOOLEAN :
    /\ hist.closes < MaxCloses
    /\ n < Len(handles[1].buffer) => ~releaseThrows
    /\ flushTimer' = ClearedTimer(flushTimer)
    /\ LoggerFlushUpTo(1, n)
    /\ loggerClosed' = (loggerClosed \/ n = Len(handles[1].buffer))
    /\ hist' = After("close", "close", Len(handles[1].buffer), n,
                     releaseThrows)
    /\ UNCHANGED <<cfg, logged, mvars>>
    /\ UNCHANGED <<winston, sinks>>
    /\ UNCHANGED cvars
    /\ UNCHANGED rvars

FNext ==
  \/ FLog
  \/ FFlush
  \/ FTick
  \/ FClose

SpecFlush == FInit /\ [][FNext]_vars

(***************************************************************************)
(* One MetricsCollector, called directly: its counters, histograms and     *)
(* gauges, and the snapshots getMetrics() hands out.                       *)
(***************************************************************************)
\* the names and label objects passed to incrementCounter and setGauge; the
\* last two label objects are one label set written in two orders
MetricNames == {"http_requests_total", "jobs_total"}
LabelObjects ==
  {NoLabels,
   <<<<"method", "GET">>>>,
   <<<<"method", "GET">>, <<"status_code", "200">>>>,
   <<<<"status_code", "200">>, <<"method", "GET">>>>}

\* the values and label objects passed to recordHistogram and setGauge
Observations == {3, 7}
FewLabelObjects == {NoLabels, <<<<"method", "GET">>>>}

\* the arguments of recordLog
MetricLevels == {"info", "error"}
MetricMessages ==
  {PlainMessage,
   [words |-> {"Request", "User"}, length |-> 16],
   [words |-> {"Response", "Error", "Query"}, length |-> 30],
   [words |-> {"User", "action", "Exception"}, length |-> 27]}
MetricMetas ==
  {AbsentMeta,
   [defined |-> TRUE, circular |-> FALSE, has |-> {"statusCode", "query"}],
   [defined |-> TRUE, circular |-> FALSE,
    has |-> {"method", "duration", "errorType"}],
   [defined |-> TRUE, circular |-> FALSE, has |-> MetaFields],
   [defined |-> TRUE, circular |-> TRUE, has |-> {"statusCode", "action"}]}

\* f with one more at x
OneMore(f, x) ==
  [y \in DOMAIN f \cup {x} |->
     IF y = x THEN (IF x \in DOMAIN f THEN f[x] ELSE 0) + 1 ELSE f[y]]

\* the increments made by the steps, per counter name and label set
RECURSIVE Issued(_, _)
Issued(issued, steps) ==
  IF steps = <<>> THEN issued
  ELSE Issued(IF Head(steps).kind = "counter"
              THEN OneMore(issued, Head(steps).ident) ELSE issued,
              Tail(steps))

\* the sum, the least and the greatest of a non-empty sequence of numbers
RECURSIVE Sum(_)
Sum(values) == IF values = <<>> THEN 0 ELSE Head(values) + Sum(Tail(values))

Min(values) ==
  CHOOSE v \in {values[i] : i \in DOMAIN values} :
    \A i \in DOMAIN values : v <= values[i]

Max(values) ==
  CHOOSE v \in {values[i] : i \in DOMAIN values} :
    \A i \in DOMAIN values : v >= values[i]

\* the statistics getMetrics() derives from the values of a histogram; avg
\* is the quotient sum / count, kept as the pair
Statistics(values) ==
  [count |-> Len(values), sum |-> Sum(values),
   avg |-> <<Sum(values), Len(values)>>,
   min |-> Min(values), max |-> Max(values)]

\* the object getMetrics() builds from collector c: counters and gauges
\* copied entry by entry, the statistics of every non-empty histogram
Metrics(c) ==
  [counters |-> c.counters,
   histograms |->
     [k \in {x \in DOMAIN c.histograms : Len(c.histograms[x]) > 0} |->
        Statistics(c.histograms[k])],
   gauges |-> c.gauges]

\* a snapshot whose counters and gauges are the maps of the collector itself
Snapshot_Shared(c) == [value |-> Metrics(c), shares |-> {"counters", "gauges"}]

\* what the caller of getMetrics() holds: the object built, which has no
\* part in common with the collector
Snapshot(c) == [value |-> Metrics(c), shares |-> {}]

NoSnapshot == [value |-> Metrics(MetricsCollector), shares |-> {}]

MaxMetricCalls == 2   \* calls that record something on the collector

\* the arguments of a call that is not recordLog
NoArgs ==
  [level |-> None, message |-> PlainMessage, meta |-> AbsentMeta,
   labels |-> NoLabels]

\* the calls that record nothing on the collector
ReadOps == {"getMetrics", "edit", "getCopy", "deleteEntry"}

\* what the last call on the collector was, what it threw, the label objects
\* given to incrementCounter since the last reset, the calls that recorded
\* something so far, the increments made since the last reset, and the value
\* getMetrics() returned last if nothing was recorded since
MetricCall(op, args, threw, issued, returned) ==
  [op |-> op, args |-> args, threw |-> threw,
   given |-> IF op = "reset" THEN {}
             ELSE IF op = "incrementCounter" THEN hist.given \cup {args.labels}
             ELSE hist.given,
   recorded |-> hist.recorded + (IF op \in ReadOps THEN 0 ELSE 1),
   issued |-> issued, returned |-> returned]

NoReturn == [valid |-> FALSE, value |-> Metrics(MetricsCollector)]

MInit ==
  /\ collectors = <<MetricsCollector>>
  /\ hist = [op |-> "none", args |-> NoArgs, threw |-> FALSE, given |-> {},
             recorded |-> 0,
             issued |-> <<>>, returned |-> NoReturn]
  /\ snapshot = NoSnapshot
  /\ procs = <<>>
  /\ VerboseUnused
  /\ cfg = None
  /\ handles = <<>>
  /\ out = <<>>
  /\ flushTimer = FALSE
  /\ loggerClosed = FALSE
  /\ logged = 0
  /\ calls = <<>>
  /\ WinstonUnused
  /\ RUnused

MetricsFrame ==
  /\ UNCHANGED <<cfg, handles, out, flushTimer, loggerClosed, logged, calls>>
  /\ UNCHANGED <<winston, sinks, procs, vvars>>
  /\ UNCHANGED rvars

\* incrementCounter(name, labels) with one of the names and label objects
Increment(names, labelObjects) ==
  \E name \in names, labels \in labelObjects :
    /\ hist.recorded < MaxMetricCalls
    /\ collectors' = [collectors EXCEPT ![1] = Counted(@, name, labels)]
    /\ hist' = MetricCall("incrementCounter",
                          [NoArgs EXCEPT !.labels = labels], FALSE,
                          Issued(hist.issued, <<CounterStep(name, labels)>>),
                          NoReturn)
    /\ UNCHANGED snapshot
    /\ MetricsFrame

IncrementCounter == Increment(MetricNames, LabelObjects)

\* recordHistogram(name, value, labels)
RecordHistogram ==
  \E value \in Observations, labels \in FewLabelObjects :
    /\ hist.recorded < MaxMetricCalls
    /\ collectors' =
         [collectors EXCEPT ![1] = Observed(@, "latency", value, labels)]
    /\ hist' = MetricCall("recordHistogram", NoArgs, FALSE, hist.issued, NoReturn)
    /\ UNCHANGED snapshot
    /\ MetricsFrame

\* setGauge(name, value, labels)
SetGauge ==
  \E value \in Observations, labels \in FewLabelObjects :
    /\ hist.recorded < MaxMetricCalls
    /\ collectors' =
         [collectors EXCEPT ![1] = Gauged(@, "queue_depth", value, labels)]
    /\ hist' = MetricCall("setGauge", NoArgs, FALSE, hist.issued, NoReturn)
    /\ UNCHANGED snapshot
    /\ MetricsFrame

\* recordLog(level, message, meta)
RecordLog ==
  \E level \in MetricLevels, message \in MetricMessages, meta \in MetricMetas :
    LET r == recordLog(collectors[1], level, message, meta) IN
    /\ hist.recorded < MaxMetricCalls
    /\ collectors' = [collectors EXCEPT ![1] = r.collector]
    /\ hist' = MetricCall("recordLog",
                          [level |-> level, message |-> message, meta |-> meta,
                           labels |-> NoLabels],
                          r.threw,
                          Issued(hist.issued,
                                 Take(recordLogSteps(level, message, meta),
                                      r.done)),
                          NoReturn)
    /\ UNCHANGED snapshot
    /\ MetricsFrame

\* getMetrics()
GetMetrics ==
  /\ snapshot' = Snapshot(collectors[1])
  /\ hist' = MetricCall("getMetrics", NoArgs, FALSE, hist.issued,
                        [valid |-> TRUE, value |-> Metrics(collectors[1])])
  /\ UNCHANGED collectors
  /\ MetricsFrame

\* the parts of a snapshot
SnapshotParts == {"counters", "histograms", "gauges"}

\* the caller of getMetrics() empties one part of the object it was given;
\* a part the object has in common with the collector is emptied there too
EditSnapshot ==
  \E part \in SnapshotParts :
    /\ snapshot.value[part] # <<>>
    /\ snapshot' = [snapshot EXCEPT !.value[part] = <<>>]
    /\ collectors' =
         IF part \in snapshot.shares
         THEN [collectors EXCEPT ![1][part] = <<>>]
         ELSE collectors
    /\ hist' = MetricCall("edit", NoArgs, FALSE, hist.issued, hist.returned)
    /\ MetricsFrame

\* reset()
Reset ==
  /\ hist.recorded < MaxMetricCalls
  /\ collectors' = [collectors EXCEPT ![1] = reset(@)]
  /\ hist' = MetricCall("reset", NoArgs, FALSE, <<>>, NoReturn)
  /\ UNCHANGED snapshot
  /\ MetricsFrame

MNext ==
  \/ IncrementCounter
  \/ RecordHistogram
  \/ SetGauge
  \/ RecordLog
  \/ GetMetrics
  \/ EditSnapshot
  \/ Reset

SpecMetrics == MInit /\ [][MNext]_vars

\* the same collector given names and label values that contain the
\* characters its keys are built with
SpelledNames == {"jobs", "jobs{method=\"GET\"}"}
SpelledLabelObjects ==
  {NoLabels,
   <<<<"method", "GET">>>>,
   <<<<"method", "GET\",status_code=\"200">>>>,
   <<<<"status_code", "200">>, <<"method", "GET">>>>}

IncrementSpelled == Increment(SpelledNames, SpelledLabelObjects)

SNext ==
  \/ IncrementSpelled
  \/ GetMetrics
  \/ Reset

SpecKeys == MInit /\ [][SNext]_vars

(***************************************************************************)
(* The collector and the Map a caller got from getCounters, getHistograms  *)
(* or getGauges.  new Map(map) copies the entries: a number is copied, the *)
(* array of a histogram is the collector's own.  snapshot is the Map the   *)
(* caller holds: the part it was copied from, its entries, and the keys    *)
(* whose value is an object of the collector.                              *)
(***************************************************************************)
\* return new Map(this.counters) / this.histograms / this.gauges
MapCopy(c, part) ==
  [of |-> part, value |-> c[part],
   shares |-> IF part = "histograms" THEN DOMAIN c.histograms ELSE {}]

\* the caller holds a Map and key is one of its entries
Holds(key) == "of" \in DOMAIN snapshot /\ key \in DOMAIN snapshot.value

\* getCounters() / getHistograms() / getGauges()
GetCopy ==
  \E part \in SnapshotParts :
    /\ snapshot' = MapCopy(collectors[1], part)
    /\ hist' = MetricCall("getCopy", NoArgs, FALSE, hist.issued, NoReturn)
    /\ UNCHANGED collectors
    /\ MetricsFrame

\* recordHistogram(name, value, labels) while a caller may hold a Map: the
\* value is pushed on the array, which the caller sees when it holds it
ObserveHeld ==
  \E value \in Observations, labels \in FewLabelObjects :
    LET key == getMetricKey("latency", labels) IN
    /\ hist.recorded < MaxMetricCalls
    /\ collectors' =
         [collectors EXCEPT ![1] = Observed(@, "latency", value, labels)]
    /\ snapshot' =
         IF Holds(key) /\ key \in snapshot.shares
         THEN [snapshot EXCEPT !.value[key] = Append(@, value)]
         ELSE snapshot
    /\ hist' = MetricCall("recordHistogram", NoArgs, FALSE, hist.issued, NoReturn)
    /\ MetricsFrame

\* the caller deletes an entry of the Map it holds
DeleteEntry ==
  \E key \in DOMAIN snapshot.value :
    /\ Holds(key)
    /\ snapshot' =
         [snapshot EXCEPT
            !.value = [k \in DOMAIN snapshot.value \ {key} |-> snapshot.value[k]]]
    /\ hist' = MetricCall("deleteEntry", NoArgs, FALSE, hist.issued, NoReturn)
    /\ UNCHANGED collectors
    /\ MetricsFrame

\* the caller pushes a value on the array of an entry of the Map returned
\* by getHistograms()
PushValue ==
  \E key \in DOMAIN snapshot.value, value \in Observations :
    /\ Holds(key)
    /\ snapshot.of = "histograms"
    /\ hist.recorded < MaxMetricCalls
    /\ snapshot' = [snapshot EXCEPT !.value[key] = Append(@, value)]
    /\ collectors' =
         IF key \in snapshot.shares
         THEN [collectors EXCEPT ![1].histograms[key] = Append(@, value)]
         ELSE collectors
    /\ hist' = MetricCall("pushValue", NoArgs, FALSE, hist.issued, NoReturn)
    /\ MetricsFrame

ONext ==
  \/ IncrementCounter
  \/ ObserveHeld
  \/ SetGauge
  \/ GetCopy
  \/ DeleteEntry
  \/ PushValue

SpecCopies == MInit /\ [][ONext]_vars

(***************************************************************************)
(* Logger handles with metrics enabled, logging messages with metadata.    *)
(***************************************************************************)
\* the levels logged: 'debug' is below the level of the logger
MeteredLevels == {"info", "debug"}
MeteredMessages ==
  {PlainMessage, [words |-> {"Request", "Error"}, length |-> 21]}
\* no meta, and a meta object that refers to itself
MeteredMetas ==
  {AbsentMeta, [defined |-> TRUE, circular |-> TRUE, has |-> {"statusCode"}]}

MaxMetered == 2          \* Logger handles logged on with metadata

XInit == LInit /\ cfg.metrics

\* log(level, message, meta) on any handle
MeteredLog ==
  \E h \in Handles, level \in MeteredLevels, message \in MeteredMessages,
     meta \in MeteredMetas :
    LET threw == Recorded(h, level, message, meta).threw IN
    /\ LoggerLogOf(h, level, message, meta)
    /\ hist' = [After("log", "none", 0, 0, FALSE) EXCEPT
                  !.raised = threw,
                  !.threw = IF threw THEN "metrics" ELSE "none"]
    /\ UNCHANGED <<winston, sinks, cvars>>

\* withContext(context) on a handle
MeteredDerive == Len(handles) < MaxMetered /\ WithContext

XNext ==
  \/ MeteredLog
  \/ MeteredDerive

SpecMetered == XInit /\ [][XNext]_vars

(***************************************************************************)
(* Several callers of one async Logger with a flush timer.  log() and      *)
(* flush() run without a suspension point up to the end of flush(): the    *)
(* only await of log() is on the promise flush() returns, after the        *)
(* buffer was swapped and dispatched, and the timer callback runs flush()  *)
(* in one go.  The handles are not closed here.                            *)
(***************************************************************************)
MaxCallers == 2          \* callers with a log call in flight

Callers == 1..MaxCallers

CInit == LInit /\ cfg.async /\ cfg.metrics /\ cfg.flushInterval

\* caller p calls log(level, message) on handle h: the call runs up to its
\* await, which is after everything it does
CLog ==
  \E p \in Callers, h \in Handles, level \in LoggedLevels :
    /\ \A i \in DOMAIN procs : procs[i].caller # p
    /\ LoggerLog(h, level)
    /\ procs' = Append(procs, [caller |-> p, h |-> h, id |-> logged + 1])
    /\ UNCHANGED <<xvars, snapshot, vvars>>

\* the promise of a log call in flight settles and the call returns
CReturn ==
  \E i \in DOMAIN procs :
    /\ procs' = [j \in 1..(Len(procs) - 1) |->
                   IF j < i THEN procs[j] ELSE procs[j + 1]]
    /\ UNCHANGED <<cfg, handles, out, flushTimer, loggerClosed, logged>>
    /\ UNCHANGED <<mvars, xvars, snapshot, vvars>>
    /\ UNCHANGED rvars

\* withContext(context) on a handle
CDerive == Len(handles) < MaxMetered /\ WithContext

CNext ==
  \/ CLog
  \/ CReturn
  \/ TimerTick
  \/ Flush
  \/ CDerive

\* the timer keeps firing
SpecConcurrent == CInit /\ [][CNext]_vars /\ WF_vars(TimerTick)

(***************************************************************************)
(* The synchronous logger of SpecLevels with a handle derived from it by   *)
(* withContext: the levels the handles report and the level winston        *)
(* applies.                                                                *)
(***************************************************************************)
HNext ==
  \/ LevelLog
  \/ SetLevel
  \/ MeteredDerive

SpecHandleLevels == VInit /\ [][HNext]_vars

(***************************************************************************)
(* Logger.create / createWithConfig: the transports made by                *)
(* TransportFactory.createTransports for a transport kind and a            *)
(* transportConfig.                                                        *)
(***************************************************************************)
\* the kinds createTransports has a case for, and one it has none for
SinkKinds == {"console", "file", "aws", "gcp", "http", "database"}
TransportKinds == SinkKinds \cup {"multiple", "syslog"}

\* a transportConfig: undefined, or an object with the config of some sinks
TransportConfigs == [given : BOOLEAN, has : SUBSET SinkKinds]

\* config?.sink
Configured(config, sink) == config.given /\ sink \in config.has

\* the creation of one transport: the aws and gcp transports need a package
\* whose import throws when it is not installed, the database transport is
\* not implemented and always throws
MakeTransport(sink, installed) ==
  IF sink = "database" \/ (sink \in {"aws", "gcp"} /\ ~installed)
  THEN [threw |-> TRUE, transports |-> <<>>]
  ELSE [threw |-> FALSE, transports |-> <<sink>>]

\* the transports made one after the other, up to the first that throws
RECURSIVE MakeAll(_, _)
MakeAll(wanted, installed) ==
  IF wanted = <<>> THEN [threw |-> FALSE, transports |-> <<>>]
  ELSE LET t == MakeTransport(Head(wanted), installed)
           rest == MakeAll(Tail(wanted), installed)
       IN IF t.threw THEN t
          ELSE [threw |-> rest.threw,
                transports |-> t.transports \o rest.transports]

\* the sinks in the order the 'multiple' case looks at them
SinkOrder == <<"console", "file", "aws", "gcp", "http", "database">>

\* the switch of createTransports(transport, config, level)
TransportsFor(transport, config, installed) ==
  CASE transport = "console" -> MakeAll(<<"console">>, installed)
    [] transport \in {"file", "aws", "gcp", "http", "database"} ->
         IF Configured(config, transport)
         THEN MakeAll(<<transport>>, installed)
         ELSE [threw |-> FALSE, transports |-> <<>>]
    [] transport = "multiple" ->
         MakeAll(SelectSeq(SinkOrder, LAMBDA k : Configured(config, k)),
                 installed)
    [] OTHER -> [threw |-> TRUE, transports |-> <<>>]

KInit == LoggerUnused /\ RUnused

\* Logger.create(transport, config) / createWithConfig(config): the
\* constructor, then initialize(), which awaits createTransports and hands
\* what it returns to winston.createLogger
Create ==
  \E transport \in TransportKinds, config \in TransportConfigs,
     installed \in BOOLEAN :
    LET made == TransportsFor(transport, config, installed) IN
    /\ hist.op = "none"
    /\ hist' = [NoHist EXCEPT !.op = "create", !.raised = made.threw,
                              !.threw = IF made.threw THEN "create" ELSE "none"]
    /\ winston' = [transport |-> transport, config |-> config,
                   transports |-> made.transports]
    /\ UNCHANGED <<cfg, handles, out, flushTimer, loggerClosed, logged>>
    /\ UNCHANGED <<mvars, sinks, cvars>>
    /\ UNCHANGED rvars

KNext == Create

SpecCreate == KInit /\ [][KNext]_vars

(***************************************************************************)
(* ResilientLogger: the claims.                                            *)
(***************************************************************************)
Expired == now - lastErrorTime > errorResetInterval

\* C1: after maxErrors log calls in a row whose primary attempt failed
\* (no success, no reset and no expired window in between) isHealthy() is
\* false, and a log call made from there before the reset interval has
\* elapsed makes one fallback write, the message, and does not touch the
\* primary.
C1_DegradedBypassesPrimary ==
  /\ [](streak >= maxErrors => ~isHealthy)
  /\ [][(streak >= maxErrors /\ ~Expired /\ call'.op \in LogOps)
          => /\ ~call'.primary
             /\ call'.writes = <<Write(call'.level, call'.message, NoMeta)>>
             /\ ~isHealthy']_vars

C1_Witness ==
  /\ call.op \in LogOps
  /\ streak >= maxErrors
  /\ call.before >= maxErrors
  /\ ~call.primary
  /\ Len(call.writes) = 1

\* C2 (as stated): once more than resetInterval has passed since the last
\* failure, isHealthy() is true.
C2_Claim == Expired => isHealthy

\* C2 (amended): once unhealthy and with more than resetInterval passed
\* since the last failure, isHealthy() is true after the next log call.
C2_HealthyAfterNextLog ==
  [][(~isHealthy /\ Expired /\ call'.op \in LogOps) => isHealthy']_vars

C2_Witness ==
  /\ call.op \in LogOps
  /\ call.before >= maxErrors
  /\ call.primary
  /\ isHealthy

\* C3 (as stated): over a primary whose sinks never fail, a log call leaves
\* getErrorCount() = 0 and isHealthy() true and writes nothing to the
\* fallback sink.
C3_Claim ==
  (~sinkFails /\ call.op \in LogOps)
    => (getErrorCount = 0 /\ isHealthy /\ call.writes = <<>>)

\* C4: no log-emitting call raises to its caller.
C4_LogNeverRaises == call.op \in LogOps => ~call.raised

C4_Witness ==
  /\ call.op \in LogOps
  /\ call.primary
  /\ call.handled
  /\ ~call.raised

\* the fallback sink delivered the message of the call at its level
MessageDelivered(c) ==
  \E i \in DOMAIN c.delivered :
    c.delivered[i] = Write(c.level, c.message, NoMeta)

\* C5 (as stated): at every level, a log call whose primary attempt failed,
\* or that was routed while Degraded, has its message delivered by the
\* fallback sink.
C5_Claim ==
  (call.op \in LogOps /\ (call.handled \/ ~call.primary))
    => MessageDelivered(call)

\* C6 (as stated): a log call whose primary attempt fails raises the count
\* by exactly 1, stamps lastErrorTime and writes diagnostic then message; a
\* log call routed while Degraded writes the message only.
C6_Claim ==
  [][(call'.op \in LogOps)
      => /\ call'.handled
            => /\ errorCount' = errorCount + 1
               /\ lastErrorTime' = now
               /\ Len(call'.writes) = 2
         /\ ~call'.primary => Len(call'.writes) = 1]_vars

\* C6 (amended): a log call whose primary attempt fails sets the count to
\* one more than the count left by its window check (0 when more than
\* resetInterval has passed since lastErrorTime, else the previous count),
\* stamps lastErrorTime with the current time and makes two fallback
\* writes, the diagnostic and then the message; a log call routed while
\* Degraded makes one fallback write, the message.
C6_FailureEffect ==
  [][(call'.op \in LogOps)
      => /\ call'.handled
            => /\ errorCount' = (IF Expired THEN 0 ELSE errorCount) + 1
               /\ lastErrorTime' = now
               /\ call'.writes =
                    <<Write("error", DiagMessage, errorCount'),
                      Write(call'.level, call'.message, NoMeta)>>
         /\ ~call'.primary
            => /\ call'.writes = <<Write(call'.level, call'.message, NoMeta)>>
               /\ lastErrorTime' = lastErrorTime]_vars

C6_Witness ==
  /\ call.op \in LogOps
  /\ call.handled
  /\ call.before > 1
  /\ errorCount = 1
  /\ Len(call.writes) = 2

C8_Claim ==
  [][(call'.handled /\ errorCount > 0 /\ ~Expired)
      => lastErrorTime' = lastErrorTime]_vars

\* C8 (amended): every failure stamps lastErrorTime with the current time,
\* so resetInterval is measured from the latest failure; a log call resets
\* the count to 0 when now - lastErrorTime > resetInterval and leaves it
\* alone otherwise.
C8_WindowSlides ==
  [][/\ call'.handled => lastErrorTime' = now
     /\ (call'.op \in LogOps /\ Expired)
          => errorCount' = (IF call'.handled THEN 1 ELSE 0)
     /\ (call'.op \in LogOps /\ ~Expired /\ ~call'.handled /\ ~call'.primary)
          => errorCount' = errorCount]_vars

C8_Witness ==
  /\ call.handled
  /\ call.before > 0
  /\ errorCount = call.before + 1
  /\ call.lastBefore > 0
  /\ call.lastBefore < lastErrorTime
  /\ lastErrorTime - call.lastBefore <= errorResetInterval
  /\ lastErrorTime = now

Degraded == errorCount >= maxErrors

\* C32: in Degraded state a log call made no more than errorResetInterval
\* after the last failure leaves errorCount and lastErrorTime alone and does
\* not touch the primary; a log call made later than that starts from a
\* count of 0 and attempts the primary (its failure then counts as the
\* first); and nothing but such a log call or an explicit resetErrorCount()
\* takes the controller out of Degraded.
C32_DegradedUntilIdle ==
  [][/\ (Degraded /\ ~Expired /\ call'.op \in LogOps)
          => /\ ~call'.primary
             /\ errorCount' = errorCount
             /\ lastErrorTime' = lastErrorTime
     /\ (Degraded /\ Expired /\ call'.op \in LogOps)
          => /\ call'.primary
             /\ errorCount' = (IF call'.handled THEN 1 ELSE 0)
     /\ (Degraded /\ ~Degraded')
          => \/ call'.op \in LogOps /\ Expired /\ call'.primary
             \/ call'.op = "resetErrorCount"]_vars

\* a log call made errorResetInterval + 1 after the last failure of a
\* degraded controller: the primary was attempted from a count of 0
C32_Witness ==
  /\ call.op \in LogOps
  /\ call.before >= maxErrors
  /\ now - call.lastBefore = errorResetInterval + 1
  /\ call.primary
  /\ errorCount <= 1
  /\ ~Degraded

\* C38 (as stated): a log call on a handle returned by withContext,
\* withTracing or child of a ResilientLogger does not raise; when its
\* primary attempt fails the failure is counted, and the message is
\* delivered by the fallback sink.
C38_Claim ==
  (call.op \in LogOps /\ derived # <<>>)
    => /\ ~call.raised
       /\ call.handled => errorCount >= 1
       /\ (call.handled \/ ~call.primary) => MessageDelivered(call)

(***************************************************************************)
(* Logger: the claims.                                                     *)
(***************************************************************************)
\* a step that derived a handle carrying a context (withContext or child)
ContextDerived ==
  /\ Len(handles') = Len(handles) + 1
  /\ handles'[Len(handles')].hasContext

\* c is the context p overlaid by e: the keys of both, e wins on a collision
Overlay(c, p, e) ==
  /\ DOMAIN c = DOMAIN p \cup DOMAIN e
  /\ \A k \in DOMAIN e : c[k] = e[k]
  /\ \A k \in DOMAIN p \ DOMAIN e : c[k] = p[k]

\* every entry still buffered and every call made on the winston logger
\* carries the context of the handle it was logged on
StampedByOwnHandle ==
  /\ \A i \in DOMAIN out :
       /\ out[i].context = handles[out[i].by].context
       /\ out[i].hasContext = handles[out[i].by].hasContext
  /\ \A h \in DOMAIN handles : \A i \in DOMAIN handles[h].buffer :
       /\ handles[h].buffer[i].context = handles[handles[h].buffer[i].by].context
       /\ handles[h].buffer[i].by = h

\* C9: withContext(extra) and child(extra) return a new handle whose context
\* is the receiver's context overlaid by extra (extra wins on a collision);
\* no step changes the context of a handle that exists, and every record
\* carries the context of the handle it was logged on.
C9_DerivationOverlay ==
  /\ [][/\ \A i \in DOMAIN handles :
             /\ handles'[i].context = handles[i].context
             /\ handles'[i].hasContext = handles[i].hasContext
        /\ ContextDerived
             => LET new == handles'[Len(handles')] IN
                /\ new.parent \in DOMAIN handles
                /\ Overlay(new.context, handles[new.parent].context, new.extra)
                /\ new.buffer = <<>>]_vars
  /\ []StampedByOwnHandle

C9_Witness ==
  /\ Len(handles) = 3
  /\ handles[2].parent = 1
  /\ handles[2].context = [k \in {"a", "b"} |-> 1]
  /\ handles[3].parent = 2
  /\ handles[3].extra = [k \in {"a"} |-> 2]
  /\ handles[3].context = [k \in {"a", "b"} |-> IF k = "a" THEN 2 ELSE 1]
  /\ \E i \in DOMAIN out : out[i].by = 2 /\ out[i].context["a"] = 1
  /\ \E i \in DOMAIN out : out[i].by = 3 /\ out[i].context["a"] = 2

\* C10 (as stated): a derived handle shares its parent's buffer: every
\* record pending on a derived handle is pending in the buffer of the handle
\* it was derived from.
C10_Claim ==
  \A h \in DOMAIN handles :
    handles[h].parent # 0
      => \A i \in DOMAIN handles[h].buffer :
           \E j \in DOMAIN handles[handles[h].parent].buffer :
             handles[handles[h].parent].buffer[j] = handles[h].buffer[i]

\* the counters reported by getMetrics() on a handle are the log calls made
\* on all the handles since the last reset, level by level
ReportsAllCalls(h) ==
  /\ \A l \in Levels :
       LogsTotal(l) \in DOMAIN getMetrics(h) <=> l \in DOMAIN calls
  /\ \A l \in DOMAIN calls : getMetrics(h)[LogsTotal(l)] = calls[l]

\* C11: with metrics enabled, getMetrics() on the root and on every derived
\* handle reports logs_total{level} equal to the number of log calls made at
\* that level on all of them since the last resetMetrics() on any of them.
C11_SharedMetrics ==
  \A h \in DOMAIN handles :
    /\ cfg.metrics => handles[h].metricsCollector # 0 /\ ReportsAllCalls(h)
    /\ ~cfg.metrics => getMetrics(h) = None

C11_Witness ==
  /\ cfg.metrics
  /\ Len(handles) = 3
  /\ handles[3].parent = 2
  /\ \E i \in DOMAIN out : out[i].by = 1
  /\ \E i \in DOMAIN out : out[i].by = 3
  /\ \A h \in DOMAIN handles : getMetrics(h)[LogsTotal("info")] = 2

\* a step that derived a handle by withTracing
TraceDerived ==
  /\ Len(handles') = Len(handles) + 1
  /\ ~handles'[Len(handles')].hasContext

\* C12: withTracing() returns a handle whose trace is a generated traceId and
\* spanId and nothing else; withTracing(t) returns a handle whose trace is
\* exactly t, with no field of the receiver's trace in it; the trace of every
\* handle that exists is unchanged.
C12_TracingReplaced ==
  [][/\ \A i \in DOMAIN handles : handles'[i].tracing = handles[i].tracing
     /\ TraceDerived
          => LET new == handles'[Len(handles')] IN
             /\ new.extra # <<>> => new.tracing = new.extra
             /\ new.extra = <<>>
                  => /\ new.tracing.traceId \in GenIds
                     /\ new.tracing.spanId \in GenIds
                     /\ new.tracing.parentSpanId = None]_vars

C12_Witness ==
  /\ Len(handles) = 3
  /\ handles[2].tracing.parentSpanId = "p1"
  /\ handles[3].parent = 2
  /\ handles[3].extra = [traceId |-> "t2", spanId |-> "s2", parentSpanId |-> None]
  /\ handles[3].tracing.parentSpanId = None
  /\ handles[3].tracing.traceId = "t2"

(***************************************************************************)
(* Levels and sinks: the claims.                                           *)
(***************************************************************************)
\* the order of the levels: trace < debug < info < warn < error < fatal
LevelOrder ==
  [trace |-> 0, debug |-> 1, info |-> 2, warn |-> 3, error |-> 4, fatal |-> 5]

\* the step is a log call, and sink i wrote its record
Wrote(i) == Len(sinks'[i]) = Len(sinks[i]) + 1

\* C13 (as stated): a record logged at level v on a synchronous logger whose
\* level is L (as created, or as last set by setLevel) is delivered to the
\* sink if and only if v >= L; stated for the levels v and L that the level
\* table of the logger defines.
C13_Claim ==
  [][(/\ logged' = logged + 1
      /\ Len(sinks) = 1
      /\ out'[Len(out')].level \in DOMAIN winston.levels
      /\ getLevel(1) \in DOMAIN winston.levels)
      => (Wrote(1)
            <=> LevelOrder[out'[Len(out')].level] >= LevelOrder[getLevel(1)])]_vars

\* C14 (as stated): a record is dispatched to a sink only if its level is at
\* or above the minimum level configured for that sink.
C14_Claim ==
  \A i \in DOMAIN sinks : \A k \in DOMAIN sinks[i] :
    cfg.transportConfig[i].level # None
      => LevelOrder[sinks[i][k].level]
           >= LevelOrder[cfg.transportConfig[i].level]

(***************************************************************************)
(* Buffering, flushing and closing: the claims.                            *)
(***************************************************************************)
\* the root was closed once, by the last call, after more than K log calls
\* in async mode with threshold K, and flush() was not called
ClosedAfterLogging ==
  /\ hist.op = "close"
  /\ hist.closes = 1
  /\ cfg.async
  /\ cfg.bufferSize > 0
  /\ logged > cfg.bufferSize
  /\ hist.manualFlushes = 0

\* C15 (as stated): N > K log calls trigger at least N \div K automatic
\* flushes, the final close() dispatches the remaining N % K records, and
\* after it all N records have been dispatched and the buffer is empty;
\* stated for the runs in which no dispatch raises.
C15_Claim ==
  (ClosedAfterLogging /\ hist.lost = 0)
    => /\ hist.sizeFlushes + hist.timerFlushes >= logged \div cfg.bufferSize
       /\ hist.dispatched = logged % cfg.bufferSize
       /\ Len(out) = logged
       /\ handles[1].buffer = <<>>

\* C15 (amended): N > K log calls trigger at least N \div K automatic flushes
\* (size- or timer-triggered); the final close() flushes the records still
\* buffered, fewer than K of them and exactly N % K when no timer flush has
\* run; after it the buffer is empty and every one of the N records has been
\* dispatched, except the records of a batch from the one at which the
\* dispatch raised.
C15_FlushesAndRemainder ==
  ClosedAfterLogging
    => /\ hist.sizeFlushes + hist.timerFlushes >= logged \div cfg.bufferSize
       /\ hist.batch < cfg.bufferSize
       /\ hist.timerFlushes = 0 => hist.batch = logged % cfg.bufferSize
       /\ hist.threw # "dispatch" => hist.dispatched = hist.batch
       /\ Len(out) + hist.lost = logged
       /\ hist.lost = 0 => Len(out) = logged
       /\ handles[1].buffer = <<>>

C15_Witness ==
  /\ ClosedAfterLogging
  /\ logged = 3
  /\ hist.timerFlushes = 1
  /\ hist.sizeFlushes = 1
  /\ hist.batch = 0
  /\ Len(out) = 3

\* C16: the calls on the winston logger are made in the order of the log
\* calls, whatever triggers the flushes and wherever a dispatch raises.
C16_FifoOrder ==
  /\ \A i, j \in DOMAIN out : i < j => out[i].id < out[j].id
  /\ \A i, j \in DOMAIN handles[1].buffer :
       i < j => handles[1].buffer[i].id < handles[1].buffer[j].id
  /\ \A i \in DOMAIN out : \A j \in DOMAIN handles[1].buffer :
       out[i].id < handles[1].buffer[j].id

C16_Witness ==
  /\ cfg.async
  /\ Len(out) = 4
  /\ hist.sizeFlushes >= 1
  /\ hist.timerFlushes >= 1
  /\ hist.op = "close"
  /\ hist.dispatched = 1

\* C17: no record is dispatched twice: a flush empties the buffer before it
\* dispatches, so a dispatched record is neither dispatched again nor still
\* buffered, also after a flush that raised part of the way through.
C17_AtMostOnce ==
  /\ \A i, j \in DOMAIN out : out[i].id = out[j].id => i = j
  /\ \A i \in DOMAIN out : \A j \in DOMAIN handles[1].buffer :
       out[i].id # handles[1].buffer[j].id
  /\ hist.threw = "dispatch" => handles[1].buffer = <<>>

C17_Witness ==
  /\ Len(out) = 2
  /\ out[1].id = 1
  /\ out[2].id = 3
  /\ hist.lost = 1
  /\ hist.op = "flush"
  /\ hist.threw = "none"

\* C18: close() clears the timer, then flushes what is buffered, then closes
\* the winston logger: the records it flushes are dispatched before the
\* winston logger is closed, a flush that raises leaves the timer cleared
\* and the winston logger as it was, and once close() was called the timer
\* is off and never flushes again.
C18_CloseOrder ==
  /\ [](hist.closes > 0 => ~flushTimer)
  /\ [][hist.closes > 0 => hist'.op # "tick"]_vars
  /\ [][hist'.closes = hist.closes + 1
         => /\ ~flushTimer'
            /\ handles'[1].buffer = <<>>
            /\ hist'.threw = "dispatch" => loggerClosed' = loggerClosed
            /\ hist'.threw # "dispatch"
                 => /\ loggerClosed'
                    /\ out' = out \o DispatchAll(handles[1].buffer, 1)
            /\ ~loggerClosed => hist'.lateWrites = hist.lateWrites]_vars

C18_Witness ==
  /\ hist.op = "close"
  /\ hist.closes = 1
  /\ cfg.flushInterval
  /\ hist.timerFlushes = 1
  /\ hist.dispatched = 1
  /\ ~flushTimer
  /\ loggerClosed

\* C19 (as stated): a second close(), a close() with an empty buffer and a
\* close() of a logger that never started a timer do not raise, and no
\* record is dispatched a second time; stated for the close() calls during
\* which no dispatch raises.
C19_Claim ==
  (/\ hist.op = "close"
   /\ hist.threw # "dispatch"
   /\ (hist.closes = 2 \/ hist.batch = 0 \/ ~cfg.flushInterval))
    => /\ ~hist.raised
       /\ \A i, j \in DOMAIN out : out[i].id = out[j].id => i = j

\* C20 (as stated): when releasing the sinks throws, close() still completes
\* without raising.
C20_Claim == (hist.op = "close" /\ hist.threw = "release") => ~hist.raised

(***************************************************************************)
(* MetricsCollector: the claims.                                           *)
(***************************************************************************)
\* the keys of the counters of collector c that stand for the counter name
\* and label set ident
AccumulatorsOf(c, ident) ==
  {k \in DOMAIN c.counters :
     \E labels \in [1..Cardinality(ident[2]) -> ident[2]] :
       /\ {labels[i] : i \in DOMAIN labels} = ident[2]
       /\ k = getMetricKey(ident[1], labels)}

\* C21: the n increments made since the last reset with one name and one
\* label set, in whatever order the labels were written in each call, are
\* held by one accumulator, and its value is n.
C21_OneAccumulator ==
  \A ident \in DOMAIN hist.issued :
    /\ Cardinality(AccumulatorsOf(collectors[1], ident)) = 1
    /\ \A k \in AccumulatorsOf(collectors[1], ident) :
         collectors[1].counters[k] = hist.issued[ident]

C21_Witness ==
  /\ <<<<"method", "GET">>, <<"status_code", "200">>>> \in hist.given
  /\ <<<<"status_code", "200">>, <<"method", "GET">>>> \in hist.given
  /\ DOMAIN hist.issued =
       {<<"jobs_total", {<<"method", "GET">>, <<"status_code", "200">>}>>}
  /\ \A ident \in DOMAIN hist.issued : hist.issued[ident] = 2
  /\ DOMAIN collectors[1].counters =
       {getMetricKey("jobs_total",
                     <<<<"status_code", "200">>, <<"method", "GET">>>>)}

\* C22: a getMetrics() call returns the value the previous one returned when
\* nothing was recorded or reset in between, also when the caller changed
\* the object it was given; a change to that object changes nothing in the
\* collector, and what getMetrics() returns is always the state of the
\* collector.
C22_IndependentSnapshot ==
  /\ [][(hist'.op = "getMetrics" /\ hist.returned.valid)
          => hist'.returned.value = hist.returned.value]_vars
  /\ [][hist'.op = "edit" => collectors' = collectors]_vars
  /\ [](hist.returned.valid => hist.returned.value = Metrics(collectors[1]))

C22_Witness ==
  /\ hist.op = "edit"
  /\ hist.returned.valid
  /\ snapshot.value.counters = <<>>
  /\ snapshot.value.gauges = <<>>
  /\ snapshot.value.histograms # <<>>
  /\ hist.returned.value.counters # <<>>
  /\ hist.returned.value.gauges # <<>>
  /\ collectors[1].counters = hist.returned.value.counters
  /\ collectors[1].gauges = hist.returned.value.gauges

\* the value of a counter and the observations of a histogram of collector
\* c, 0 when the key is not there
CounterAt(c, key) == IF key \in DOMAIN c.counters THEN c.counters[key] ELSE 0

ObservationsAt(c, key) ==
  IF key \in DOMAIN c.histograms THEN Len(c.histograms[key]) ELSE 0

\* the heuristic patterns: the counter of each and the words that match it
PatternCounters ==
  {"http_requests_total", "database_queries_total", "errors_total",
   "user_actions_total"}

Matches(message, name) ==
  CASE name = "http_requests_total" ->
         message.words \cap {"Request", "Response"} # {}
    [] name = "database_queries_total" ->
         message.words \cap {"Database", "Query"} # {}
    [] name = "errors_total" ->
         message.words \cap {"Error", "Exception"} # {}
    [] name = "user_actions_total" -> {"User", "action"} \subseteq message.words

\* the labelled counters: the counter, its label and the field of meta
SubMetrics ==
  {<<"http_requests_total", "status_code", "statusCode">>,
   <<"http_requests_total", "method", "method">>,
   <<"errors_total", "error_type", "errorType">>,
   <<"user_actions_total", "action", "action">>}

Has(meta, field) == meta.defined /\ field \in meta.has

One(b) == IF b THEN 1 ELSE 0

\* C24: recordLog(level, message, meta) with meta undefined or lacking any
\* of the fields does not throw; it adds 1 to the unlabelled counter of each
\* pattern the message matches and nothing to the others; it adds 1 to a
\* labelled counter exactly when its pattern matches and its field is there,
\* makes no labelled counter out of a missing field, and records a query
\* duration only for a database message whose meta has a query.
C24_AbsentFieldsSkipped ==
  [][(hist'.op = "recordLog" /\ ~hist'.args.meta.circular)
      => LET m == hist'.args.message
             meta == hist'.args.meta
             c == collectors[1]
             d == collectors'[1]
         IN /\ ~hist'.threw
            /\ \A name \in PatternCounters :
                 CounterAt(d, getMetricKey(name, NoLabels))
                   = CounterAt(c, getMetricKey(name, NoLabels))
                       + One(Matches(m, name))
            /\ \A sub \in SubMetrics :
                 LET key == getMetricKey(sub[1], <<<<sub[2], LabelText[sub[3]]>>>>)
                 IN /\ CounterAt(d, key)
                         = CounterAt(c, key)
                             + One(Matches(m, sub[1]) /\ Has(meta, sub[3]))
                    /\ getMetricKey(sub[1], <<<<sub[2], None>>>>)
                         \notin DOMAIN d.counters
            /\ ObservationsAt(d, getMetricKey("database_query_duration", NoLabels))
                 = ObservationsAt(c, getMetricKey("database_query_duration",
                                                  NoLabels))
                     + One(Matches(m, "database_queries_total")
                             /\ Has(meta, "query"))]_vars

C24_Witness ==
  /\ hist.op = "recordLog"
  /\ ~hist.threw
  /\ hist.recorded = 1
  /\ hist.args.message.words = {"Response", "Error", "Query"}
  /\ hist.args.meta.has = {"statusCode", "query"}
  /\ DOMAIN collectors[1].counters =
       {LogsTotal(hist.args.level),
        getMetricKey("http_requests_total", NoLabels),
        getMetricKey("http_requests_total", <<<<"status_code", "200">>>>),
        getMetricKey("database_queries_total", NoLabels),
        getMetricKey("errors_total", NoLabels)}
  /\ collectors[1].histograms[getMetricKey("database_query_duration", NoLabels)]
       = <<0>>

\* C29: no call other than reset() removes a counter or lowers its value,
\* whatever is recorded, read or changed in a snapshot; every counter is a
\* positive integer; reset() empties counters, histograms and gauges, and
\* getMetrics() then reports no metric.
C29_MonotonicCounters ==
  /\ [][hist'.op # "reset"
          => \A k \in DOMAIN collectors[1].counters :
               /\ k \in DOMAIN collectors'[1].counters
               /\ collectors'[1].counters[k] >= collectors[1].counters[k]]_vars
  /\ [](\A k \in DOMAIN collectors[1].counters :
          collectors[1].counters[k] \in Nat \ {0})
  /\ [][hist'.op = "reset"
          => /\ collectors'[1] = MetricsCollector
             /\ Metrics(collectors'[1])
                  = [counters |-> <<>>, histograms |-> <<>>, gauges |-> <<>>]]_vars

C29_Witness ==
  /\ hist.op = "reset"
  /\ hist.recorded = 2
  /\ snapshot.value.gauges # <<>>
  /\ collectors[1].gauges = <<>>
  /\ collectors[1].counters = <<>>

(***************************************************************************)
(* Metrics of the log calls: the claims.                                   *)
(***************************************************************************)
MessageLength(level) ==
  getMetricKey("log_message_length", <<<<"level", level>>>>)

\* C23: with metrics enabled, a log call at a level, on the root or on a
\* derived handle, in sync or async mode, whatever the message and the meta
\* and whether or not the level passes the level of the logger, adds exactly
\* 1 to logs_total{level} and exactly one observation to
\* log_message_length{level}, and leaves those of the other levels alone.
C23_EveryCallCounted ==
  [][logged' = logged + 1
      => \A l \in Levels :
           LET d == IF calls' = Called(l) THEN 1 ELSE 0 IN
           /\ CounterAt(collectors'[1], LogsTotal(l))
                = CounterAt(collectors[1], LogsTotal(l)) + d
           /\ ObservationsAt(collectors'[1], MessageLength(l))
                = ObservationsAt(collectors[1], MessageLength(l)) + d]_vars

C23_Witness ==
  /\ cfg.async
  /\ logged = 2
  /\ Len(handles) >= 2
  /\ handles[2].metricsCollector = 1
  /\ \E i \in DOMAIN out : out[i].by = 2 /\ out[i].passed = "debug"
  /\ getLevel(2) = "info"
  /\ CounterAt(collectors[1], LogsTotal("debug")) = 2
  /\ ObservationsAt(collectors[1], MessageLength("debug")) = 2
  /\ CounterAt(collectors[1], getMetricKey("http_requests_total", NoLabels)) = 1

\* the record of the last log call is buffered on a handle or was dispatched
LastRecordKept ==
  \/ \E i \in DOMAIN out : out[i].id = logged
  \/ \E h \in DOMAIN handles : \E j \in DOMAIN handles[h].buffer :
       handles[h].buffer[j].id = logged

\* C25 (as stated): when recording the metrics of a record fails on its
\* metadata, the log call does not raise and the record is still buffered
\* (async mode) or dispatched (sync mode).
C25_Claim ==
  (hist.op = "log" /\ hist.threw = "metrics")
    => (~hist.raised /\ LastRecordKept)

(***************************************************************************)
(* Concurrent callers: the claims.                                         *)
(***************************************************************************)
\* the number of places record id is in: pending in a buffer, or dispatched
Places(id) ==
  Cardinality({i \in DOMAIN out : out[i].id = id})
    + Cardinality({<<h, j>> \in (DOMAIN handles) \X (1..MaxRecords) :
                     j \in DOMAIN handles[h].buffer
                       /\ handles[h].buffer[j].id = id})

Pending(h, id) == \E j \in DOMAIN handles[h].buffer : handles[h].buffer[j].id = id

Dispatched(id) == \E i \in DOMAIN out : out[i].id = id

\* C26: while the log calls of several callers, flush() and the timer
\* callback interleave on handles that share one collector, logs_total
\* equals the number of log calls made, every record logged is in exactly
\* one place (pending in the buffer of its handle, or dispatched once), and
\* a record pending in the buffer the timer flushes is eventually dispatched.
C26_NoLostUpdate ==
  /\ [](\A l \in DOMAIN calls : CounterAt(collectors[1], LogsTotal(l)) = calls[l])
  /\ [](\A id \in 1..logged : Places(id) = 1)
  /\ \A id \in 1..MaxRecords : Pending(1, id) ~> Dispatched(id)

C26_Witness ==
  /\ Len(procs) = 2
  /\ procs[1].caller # procs[2].caller
  /\ procs[1].h = 1
  /\ procs[2].h = 1
  /\ Len(out) = 2
  /\ CounterAt(collectors[1], LogsTotal("info")) = 2

\* C28: in sync mode, a log call during which the winston logger throws
\* raises that failure to its caller, and the record is not dispatched.
C28_SyncFailureRaises ==
  (hist.op = "log" /\ ~cfg.async /\ hist.threw = "dispatch")
    => /\ hist.raised
       /\ hist.dispatched = 0
       /\ \A i \in DOMAIN out : out[i].id # logged

C28_Witness ==
  /\ hist.op = "log"
  /\ ~cfg.async
  /\ hist.threw = "dispatch"
  /\ hist.raised
  /\ logged = 2
  /\ Len(out) = 1

(***************************************************************************)
(* Creation: the claims.                                                   *)
(***************************************************************************)
\* the sink kinds that need a config of their own
NeedsConfig == {"file", "aws", "gcp", "http"}

\* C27 (as stated): creating a logger with an unsupported sink kind, or with
\* a sink kind whose config is missing, raises, and a creation that does not
\* raise returns a logger that has a sink.
C27_Claim ==
  hist.op = "create"
    => /\ (\/ winston.transport \notin SinkKinds \cup {"multiple"}
           \/ /\ winston.transport \in NeedsConfig
              /\ ~Configured(winston.config, winston.transport))
            => hist.raised
       /\ ~hist.raised => winston.transports # <<>>

(***************************************************************************)
(* Verbose: the diagnostic string of the process.  A string is the         *)
(* sequence of the parts that join(', ') puts together: every part is a    *)
(* label, ': ' and a value, so the joined string is empty for no part and  *)
(* non-empty otherwise.                                                    *)
(***************************************************************************)
EmptyString == <<>>

\* the fields of a LoggerContext that harshPrint looks at, in its order,
\* and the label each is printed under
ContextFields ==
  <<"service", "version", "environment", "requestId", "correlationId">>

ContextLabel ==
  [service |-> "SERVICE", version |-> "VERSION", environment |-> "ENV",
   requestId |-> "REQ_ID", correlationId |-> "CORR_ID"]

\* '' is falsy
Truthy(value) == value # ""

\* the LoggerContext objects handed to the constructor and to setContext:
\* the empty object, the objects of one field, and one whose service is ''
Range(seq) == {seq[i] : i \in DOMAIN seq}

ContextObjects ==
  {[defined |-> TRUE, fields |-> object] :
     object \in
       {<<>>, [service |-> ""]}
         \cup {[f \in {field} |-> "api"] : field \in Range(ContextFields)}}

\* no LoggerContext: the argument or the field is undefined
NoContext == [defined |-> FALSE, fields |-> <<>>]

\* the TracingContext objects: parentSpanId is optional
TracingObjects ==
  {[defined |-> TRUE, traceId |-> "t1", spanId |-> "s1",
    parentSpanId |-> parent] : parent \in {None, "s0"}}

\* no TracingContext
NoTracing ==
  [defined |-> FALSE, traceId |-> None, spanId |-> None,
   parentSpanId |-> None]

\* what the process reports
Process == [gid |-> "20", uid |-> "501", pid |-> "4242", memory |-> "rss"]

Part(label, value) == [label |-> label, value |-> value]

\* the parts pushed for the context of v
RECURSIVE ContextParts(_, _)
ContextParts(v, i) ==
  IF i > Len(ContextFields) THEN <<>>
  ELSE LET field == ContextFields[i]
       IN  (IF /\ field \in DOMAIN v.context.fields
               /\ Truthy(v.context.fields[field])
            THEN <<Part(ContextLabel[field], v.context.fields[field])>>
            ELSE <<>>)
           \o ContextParts(v, i + 1)

\* the parts pushed for the tracing of v
TracingParts(v) ==
  <<Part("TRACE_ID", v.tracing.traceId), Part("SPAN_ID", v.tracing.spanId)>>
    \o IF v.tracing.parentSpanId # None
       THEN <<Part("PARENT_SPAN_ID", v.tracing.parentSpanId)>>
       ELSE <<>>

harshPrint(v) ==
  <<Part("GID", Process.gid), Part("UID", Process.uid),
    Part("PID", Process.pid), Part("MEMORY", Process.memory)>>
    \o (IF v.context.defined THEN ContextParts(v, 1) ELSE <<>>)
    \o (IF v.tracing.defined THEN TracingParts(v) ELSE <<>>)

\* a print() that does not look at enabled
print_Always(v) == harshPrint(v)

print(v) == IF v.enabled THEN harshPrint(v) ELSE EmptyString

\* { ...this.context, ...context }: the fields of the second win
Spread(old, new) ==
  [defined |-> TRUE,
   fields |-> [field \in DOMAIN old.fields \cup DOMAIN new.fields |->
                 IF field \in DOMAIN new.fields
                 THEN new.fields[field]
                 ELSE old.fields[field]]]

\* no print() yet
NoPrint == [called |-> FALSE, of |-> None, text |-> EmptyString]

\* new Verbose(context?, tracing?): enabled is false
PInit ==
  /\ \E context \in ContextObjects \cup {NoContext},
        tracing \in TracingObjects \cup {NoTracing} :
       verbose = [enabled |-> FALSE, context |-> context, tracing |-> tracing]
  /\ printed = NoPrint
  /\ snapshot = None
  /\ procs = <<>>
  /\ cfg = None
  /\ handles = <<>>
  /\ out = <<>>
  /\ flushTimer = FALSE
  /\ loggerClosed = FALSE
  /\ logged = 0
  /\ collectors = <<>>
  /\ calls = <<>>
  /\ WinstonUnused
  /\ hist = NoHist
  /\ RUnused

VerboseFrame ==
  /\ UNCHANGED <<cfg, handles, out, flushTimer, loggerClosed, logged>>
  /\ UNCHANGED <<mvars, xvars, snapshot, procs>>
  /\ UNCHANGED rvars

\* v.enabled = isEnabled, as Logger.setVerbose does
SetEnabled ==
  \E isEnabled \in BOOLEAN :
    /\ verbose' = [verbose EXCEPT !.enabled = isEnabled]
    /\ UNCHANGED printed
    /\ VerboseFrame

\* setContext(context)
SetContext ==
  \E context \in ContextObjects :
    /\ verbose' = [verbose EXCEPT !.context = Spread(@, context)]
    /\ UNCHANGED printed
    /\ VerboseFrame

\* setTracing(tracing)
SetTracing ==
  \E tracing \in TracingObjects :
    /\ verbose' = [verbose EXCEPT !.tracing = tracing]
    /\ UNCHANGED printed
    /\ VerboseFrame

\* print()
PrintVerbose ==
  /\ printed' = [called |-> TRUE, of |-> verbose, text |-> print(verbose)]
  /\ UNCHANGED verbose
  /\ VerboseFrame

PNext == SetEnabled \/ SetContext \/ SetTracing \/ PrintVerbose

SpecVerbose == PInit /\ [][PNext]_vars

Labels(text) == {text[i].label : i \in DOMAIN text}

\* C30: print() returns the empty string when enabled is false; when enabled
\* is true it returns what harshPrint() returns, a non-empty string that
\* has the PID field.
C30_PrintFollowsEnabled ==
  printed.called
    => IF printed.of.enabled
       THEN /\ printed.text = harshPrint(printed.of)
            /\ printed.text # EmptyString
            /\ "PID" \in Labels(printed.text)
       ELSE printed.text = EmptyString

\* a print() while disabled, on an object that has a context and a tracing
C30_Witness ==
  /\ printed.called
  /\ ~printed.of.enabled
  /\ printed.of.context.defined
  /\ printed.of.tracing.defined
  /\ printed.text = EmptyString
  /\ verbose.enabled


(***************************************************************************)
(* Buffers, contexts and levels of the handles: the claims.                *)
(***************************************************************************)
\* C33 (as stated): the records logged on a logger created with
\* config.context = C carry C as their context, and the records logged on a
\* handle made from it by withContext(extra) or child(extra) carry C
\* overlaid by extra.
C33_Claim ==
  \A i \in DOMAIN out :
    LET h == out[i].by IN
    /\ h = 1 => out[i].hasContext /\ out[i].context = cfg.context
    /\ (handles[h].parent = 1 /\ handles[h].hasContext)
         => out[i].context = Merge(cfg.context, handles[h].extra)

\* C31: in async mode with a threshold K > 0, the size-triggered flush runs
\* inside the log call, so between calls the buffer of every handle, the
\* root's and a derived one's, holds fewer than K entries.
C31_BufferBelowThreshold ==
  (cfg.async /\ cfg.bufferSize > 0)
    => \A h \in Handles : Len(handles[h].buffer) < cfg.bufferSize

\* the calls have returned; a derived handle was flushed by its size trigger
\* and the root holds an entry below the threshold
C31_Witness ==
  /\ cfg.async
  /\ cfg.bufferSize = BufferSize
  /\ procs = <<>>
  /\ Len(handles) = 2
  /\ handles[2].buffer = <<>>
  /\ Len(out) = BufferSize
  /\ \A i \in DOMAIN out : out[i].by = 2

\* C34 (as stated): a derivation keeps the dimension it does not change: the
\* records of a handle made by withContext or child carry the trace of the
\* handle it was made from, and the records of a handle made by withTracing
\* carry the context of the handle it was made from.
C34_Claim ==
  \A i \in DOMAIN out :
    LET h == out[i].by
        p == handles[h].parent
    IN p # 0
         => IF handles[h].hasContext
            THEN out[i].tracing = handles[p].tracing
            ELSE /\ out[i].hasContext = handles[p].hasContext
                 /\ out[i].context = handles[p].context

\* C35 (as stated): while the root's flush timer keeps firing, every record
\* pending in the buffer of a derived handle is eventually dispatched.
C35_Claim ==
  \A id \in 1..MaxRecords :
    (\E h \in Handles : handles[h].parent # 0 /\ Pending(h, id))
      ~> Dispatched(id)

\* C36 (as stated): every call made on the winston logger, at flush for a
\* buffered record as in sync mode, has the level string that was passed to
\* log().
C36_Claim == \A i \in DOMAIN out : out[i].level = out[i].passed

\* the minimum level winston applies at transport i: the transport's own
\* level, the logger's when it has none
AppliedLevel(i) ==
  IF winston.transports[i].level # None
  THEN winston.transports[i].level
  ELSE winston.level

\* C37 (as stated): getLevel() on every handle is the minimum level applied
\* to the records that handle dispatches.
C37_Claim ==
  \A h \in Handles : \A i \in DOMAIN winston.transports :
    getLevel(h) = AppliedLevel(i)


(***************************************************************************)
(* MetricsCollector: keys and copies, the claims.                          *)
(***************************************************************************)
\* C39 (as stated): increments made under two different pairs of a name and
\* a label set never land in the same accumulator, whatever characters the
\* names and the label values contain.
C39_Claim ==
  \A a \in DOMAIN hist.issued : \A b \in DOMAIN hist.issued :
    a # b
      => AccumulatorsOf(collectors[1], a) \cap AccumulatorsOf(collectors[1], b)
           = {}

\* C40 (as stated): whatever the caller does to the Map returned by
\* getCounters(), getHistograms() or getGauges(), deleting an entry or
\* pushing a value on the array of a histogram, the state of the collector
\* and what getMetrics() returns stay as they were.
C40_Claim ==
  [][hist'.op \in {"deleteEntry", "pushValue"}
       => /\ collectors' = collectors
          /\ Metrics(collectors'[1]) = Metrics(collectors[1])]_vars

====
